---- MODULE Spec2Model ----
(***************************************************************************)
(* Evaluation harness of svelte-claude-skills: the batch runners           *)
(* run_activation_tests / run_quality_tests, the per-case functions        *)
(* test_skill_activation / test_response_quality (message interpretation,  *)
(* scoring, metrics) and the storage commands create_test_run,             *)
(* update_test_run, store_activation_result, store_quality_result.         *)
(*                                                                         *)
(* Strings that the code inspects character by character (response text,   *)
(* expected facts, forbidden strings) are sequences of one-character       *)
(* strings.  Identifiers that the code only compares are plain strings.    *)
(* Money is counted in nano-dollars, so that per-token rates are integers. *)
(***************************************************************************)
EXTENDS Integers, Sequences, FiniteSets, TLC

\* ------------------------------------------------------------------ bounds
MaxCases == 2      \* longest batch submitted
MaxMsgs == 2       \* longest message stream of one agent call
MaxFaults == 1     \* persistence calls that may throw in one execution
MaxCasesInterp == 1   \* longest batch submitted when streams hold any message
MaxCasesTwo == 1      \* longest batch submitted when two batches are followed
MaxCasesPair == 1     \* longest batch submitted when two batches are in flight

\* --------------------------------------------------------------- sentinels
NULL == "<null>"              \* JavaScript null / SQL NULL in a text column
UNDEFINED == "<undefined>"    \* JavaScript undefined in a string position
UNDEFINED_TEXT == <<UNDEFINED>>   \* undefined where a character string is expected
NULL_NUM == -1                \* SQL NULL in a numeric column
ABSENT == -1                  \* a usage counter the agent did not report

Batches == {"A", "B"}         \* batch invocations that may be in flight

\* ------------------------------------------------------- character strings
T_onclick == <<"o", "n", "c", "l", "i", "c", "k">>
T_OnClick == <<"O", "n", "C", "l", "i", "c", "k">>
T_on_click == <<"o", "n", ":", "c", "l", "i", "c", "k">>
T_colon == <<":">>
T_empty == <<>>

\* a comparison that forgets to fold the letter case
ToLowerCase_Identity(s) == s

\* String.prototype.toLowerCase on the characters in use
ToLowerChar(c) ==
  CASE c = "O" -> "o"
    [] c = "C" -> "c"
    [] OTHER -> c

ToLowerCase(s) == [k \in 1..Len(s) |-> ToLowerChar(s[k])]

\* String.prototype.includes
Includes(s, t) ==
  \E k \in 0..(Len(s) - Len(t)) : SubSeq(s, k + 1, k + Len(t)) = t

\* a preview that is not cut
Substring0_Uncut(s, n) == s

\* String.prototype.substring(0, n)
Substring0(s, n) == SubSeq(s, 1, IF Len(s) < n THEN Len(s) ELSE n)

PreviewLen == 200
LongTextLen == 150   \* length of the long text block of a message

\* ------------------------------------------------------------- test cases
DEFAULT_MODEL == "claude-sonnet-4-5-20250929"
UNKNOWN_MODEL == "not-in-pricing-table"

SkillNames == {"svelte5-runes", "sveltekit-data-flow", "sveltekit-structure",
               "sveltekit-remote-functions"}

\* activation_test_schema: model is optional (UNDEFINED when absent)
ActivationCase(id, skill, should, model) ==
  [id |-> id, query |-> id, expected_skill |-> skill,
   should_activate |-> should, model |-> model]

ActivationCatalog ==
  { ActivationCase("act-001", "svelte5-runes", TRUE, UNDEFINED),
    ActivationCase("act-neg", "sveltekit-structure", FALSE, UNDEFINED),
    ActivationCase("act-unk", "svelte5-runes", TRUE, UNKNOWN_MODEL) }

\* quality_test_schema: expected_facts, must_not_contain and model are optional
QualityCase(id, has_facts, facts, has_forbidden, forbidden, model) ==
  [id |-> id, query |-> id, skill |-> "svelte5-runes",
   has_expected_facts |-> has_facts, expected_facts |-> facts,
   has_must_not_contain |-> has_forbidden, must_not_contain |-> forbidden,
   model |-> model]

QualityCatalog ==
  { QualityCase("qual-004", TRUE, <<T_onclick>>, TRUE, <<T_on_click>>, UNDEFINED),
    QualityCase("qual-two", TRUE, <<T_onclick, T_colon>>, TRUE,
                <<T_colon, T_onclick>>, UNDEFINED),
    QualityCase("qual-unk", FALSE, <<>>, FALSE, <<>>, UNKNOWN_MODEL) }

SeqsUpTo(S, n) == UNION { [1..k -> S] : k \in 0..n }

\* ------------------------------------------------ agent messages (SDK stream)
Usage(i, o, cc, cr, th) ==
  [input_tokens |-> i, output_tokens |-> o, cache_creation_input_tokens |-> cc,
   cache_read_input_tokens |-> cr, thinking_tokens |-> th]

NoUsage == Usage(ABSENT, ABSENT, ABSENT, ABSENT, ABSENT)
U1 == Usage(1000, 500, ABSENT, 200, ABSENT)
U2 == Usage(10, 20, 5, ABSENT, 3)

TextBlock(t) ==
  [type |-> "text", has_text |-> TRUE, text |-> t, name |-> UNDEFINED,
   input |-> "absent", skill |-> UNDEFINED]
ToolUse(name, input, skill) ==
  [type |-> "tool_use", has_text |-> FALSE, text |-> T_empty, name |-> name,
   input |-> input, skill |-> skill]

Assistant(has_usage, usage, content) ==
  [type |-> "assistant", has_body |-> TRUE, has_usage |-> has_usage,
   usage |-> usage, content_is_array |-> TRUE, content |-> content]

\* a message of another type than assistant (system, result, user)
M_system ==
  [type |-> "system", has_body |-> FALSE, has_usage |-> FALSE, usage |-> NoUsage,
   content_is_array |-> FALSE, content |-> <<>>]
\* an assistant message that carries no message body
M_nobody ==
  [type |-> "assistant", has_body |-> FALSE, has_usage |-> FALSE, usage |-> NoUsage,
   content_is_array |-> FALSE, content |-> <<>>]
M_text_OnClick == Assistant(TRUE, U1, <<TextBlock(T_OnClick)>>)
M_text_on_click ==
  Assistant(TRUE, U2, <<ToolUse("Skill", "object_with_skill", "svelte5-runes"),
                        TextBlock(T_on_click)>>)
M_skill_runes ==
  Assistant(TRUE, U1, <<ToolUse("Read", "object", UNDEFINED),
                        ToolUse("Skill", "object_with_skill", "svelte5-runes"),
                        ToolUse("Skill", "object_with_skill", "sveltekit-data-flow")>>)
M_skill_structure ==
  Assistant(TRUE, U2, <<ToolUse("Skill", "object_with_skill", "sveltekit-structure")>>)

\* the messages an agent call of a batch of this kind may yield
Messages(kind) ==
  IF kind = "activation"
    THEN {M_system, M_nobody, M_text_OnClick, M_skill_runes, M_skill_structure}
    ELSE {M_system, M_nobody, M_text_OnClick, M_text_on_click}

\* a Skill invocation whose skill field is the empty string
M_skill_empty == Assistant(TRUE, U2, <<ToolUse("Skill", "object_with_skill", "")>>)
\* an assistant message whose content is a string, not a list of blocks
M_content_string ==
  [type |-> "assistant", has_body |-> TRUE, has_usage |-> TRUE, usage |-> U2,
   content_is_array |-> FALSE, content |-> <<>>]
\* a block with a tag the loops do not know
M_unknown_block ==
  Assistant(TRUE, U2, <<[type |-> "image", has_text |-> FALSE, text |-> T_empty,
                         name |-> UNDEFINED, input |-> "absent",
                         skill |-> UNDEFINED]>>)
\* a text block that carries no text
M_text_missing ==
  Assistant(TRUE, U2, <<[type |-> "text", has_text |-> FALSE, text |-> T_empty,
                         name |-> UNDEFINED, input |-> "absent",
                         skill |-> UNDEFINED]>>)
\* a Skill invocation that carries no argument map
M_skill_noinput == Assistant(TRUE, U2, <<ToolUse("Skill", "absent", UNDEFINED)>>)

\* a text block long enough for two of them to exceed the preview length
T_long == [k \in 1..LongTextLen |-> "x"]
M_text_long == Assistant(TRUE, U2, <<TextBlock(T_long)>>)

\* messages of a shape the loops do not expect
AnomalousMessages ==
  {M_nobody, M_content_string, M_unknown_block, M_text_missing, M_skill_noinput}

\* the wider set of messages an agent call may yield: the usual ones, the
\* anomalous ones, on the activation path a Skill invocation of "", and on the
\* quality path a long text
MessagesInterp(kind) ==
  Messages(kind) \cup AnomalousMessages
    \cup (IF kind = "activation" THEN {M_skill_empty} ELSE {M_text_long})

\* what a failing agent call, or anything else inside the try block, may throw
Thrown(is_error, message) == [is_error |-> is_error, message |-> message]
AgentFailures ==
  {Thrown(TRUE, "agent process exited"), Thrown(TRUE, ""), Thrown(FALSE, UNDEFINED)}
TypeErrorThrown == Thrown(TRUE, "Cannot read properties of undefined")

\* ----------------------------------------------------------------- metrics
\* UsageData as initialised at the start of a test function
ZeroUsage ==
  [input_tokens |-> 0, output_tokens |-> 0, cache_creation_tokens |-> 0,
   cache_read_tokens |-> 0, thinking_tokens |-> 0]

\* x || 0 on a counter that may be absent
OrZero(x) == IF x = ABSENT THEN 0 ELSE x

\* a usage block that assigns (=) where the code adds (+=)
AddUsage_Overwriting(usage, msg_usage) ==
  [input_tokens |-> OrZero(msg_usage.input_tokens),
   output_tokens |-> OrZero(msg_usage.output_tokens),
   cache_creation_tokens |-> OrZero(msg_usage.cache_creation_input_tokens),
   cache_read_tokens |-> OrZero(msg_usage.cache_read_input_tokens),
   thinking_tokens |-> OrZero(msg_usage.thinking_tokens)]

\* the usage block of the message loop: every counter is added to the running total
AddUsage(usage, msg_usage) ==
  [input_tokens |-> usage.input_tokens + OrZero(msg_usage.input_tokens),
   output_tokens |-> usage.output_tokens + OrZero(msg_usage.output_tokens),
   cache_creation_tokens |->
     usage.cache_creation_tokens + OrZero(msg_usage.cache_creation_input_tokens),
   cache_read_tokens |->
     usage.cache_read_tokens + OrZero(msg_usage.cache_read_input_tokens),
   thinking_tokens |->
     IF msg_usage.thinking_tokens # ABSENT /\ msg_usage.thinking_tokens # 0
       THEN usage.thinking_tokens + msg_usage.thinking_tokens
       ELSE usage.thinking_tokens]

\* metrics-tracker: thinking tokens are not part of the total
calculate_total_tokens(usage) ==
  usage.input_tokens + usage.output_tokens + usage.cache_creation_tokens
    + usage.cache_read_tokens

\* cost-calculator: per-token rates in nano-dollars
RateInput == 3000
RateOutput == 15000
RateCacheRead == 300
RateCacheWrite == 3750
KnownModels == {DEFAULT_MODEL}

\* [ok |-> FALSE] stands for the exception raised on a pricing-table miss
calculate_cost(usage, model) ==
  IF model \in KnownModels
    THEN [ok |-> TRUE,
          value |-> usage.input_tokens * RateInput
                      + usage.output_tokens * RateOutput
                      + usage.cache_read_tokens * RateCacheRead
                      + usage.cache_creation_tokens * RateCacheWrite]
    ELSE [ok |-> FALSE, value |-> 0]

UnknownModelThrown == Thrown(TRUE, "Unknown model")

NoMetrics ==
  [has |-> FALSE, input_tokens |-> 0, output_tokens |-> 0,
   cache_creation_tokens |-> 0, cache_read_tokens |-> 0, thinking_tokens |-> 0,
   total_tokens |-> 0, latency_ms |-> 0, estimated_cost_usd |-> 0]

\* a metrics object that reports the token total where the cost belongs
Metrics_CostFromTokens(usage, total_tokens, latency_ms, estimated_cost_usd) ==
  [has |-> TRUE, input_tokens |-> usage.input_tokens,
   output_tokens |-> usage.output_tokens,
   cache_creation_tokens |-> usage.cache_creation_tokens,
   cache_read_tokens |-> usage.cache_read_tokens,
   thinking_tokens |-> usage.thinking_tokens, total_tokens |-> total_tokens,
   latency_ms |-> latency_ms, estimated_cost_usd |-> total_tokens]

Metrics(usage, total_tokens, latency_ms, estimated_cost_usd) ==
  [has |-> TRUE, input_tokens |-> usage.input_tokens,
   output_tokens |-> usage.output_tokens,
   cache_creation_tokens |-> usage.cache_creation_tokens,
   cache_read_tokens |-> usage.cache_read_tokens,
   thinking_tokens |-> usage.thinking_tokens, total_tokens |-> total_tokens,
   latency_ms |-> latency_ms, estimated_cost_usd |-> estimated_cost_usd]

\* test_case.model || 'claude-sonnet-4-5-20250929'
ModelOf(test_case) ==
  IF test_case.model = UNDEFINED \/ test_case.model = ""
    THEN DEFAULT_MODEL ELSE test_case.model

\* error instanceof Error ? error.message : 'Unknown error'
ErrorMsg(thrown) == IF thrown.is_error THEN thrown.message ELSE "Unknown error"

\* ----------------------------------------------------- message interpreter
\* state of one running test function: what it has gathered from the stream
NewCall ==
  [activated_skill |-> NULL, response_text |-> T_empty, usage |-> ZeroUsage,
   logs |-> <<"starting", "using model", "query", "calling sdk", "processing">>,
   n |-> 0]

\* the condition of the inner if: a Skill tool_use whose input holds a skill field
IsSkillInvocation(block) ==
  /\ block.type = "tool_use"
  /\ block.name = "Skill"
  /\ block.input = "object_with_skill"

\* for (const block of content) of test_skill_activation, from block k on
RECURSIVE ScanBlocksForSkill(_, _, _)
ScanBlocksForSkill(content, k, st) ==
  IF k > Len(content) THEN st
  ELSE LET block == content[k]
           st1 == IF block.type = "tool_use"
                    THEN [st EXCEPT !.logs = Append(@, "tool use detected")]
                    ELSE st
       IN IF IsSkillInvocation(block)
            THEN [st1 EXCEPT !.activated_skill = block.skill,
                             !.logs = Append(@, "skill activated")]
            ELSE ScanBlocksForSkill(content, k + 1, st1)

\* a block loop of test_response_quality that stops at the first tool_use block
RECURSIVE ScanBlocksForText_StoppingAtToolUse(_, _, _)
ScanBlocksForText_StoppingAtToolUse(content, k, r) ==
  IF k > Len(content) \/ r.thrown THEN r
  ELSE LET block == content[k]
       IN IF block.type = "tool_use" THEN r
          ELSE IF block.type = "text"
            THEN IF block.has_text
                   THEN ScanBlocksForText_StoppingAtToolUse(content, k + 1,
                          [r EXCEPT !.st.response_text = @ \o block.text,
                                    !.st.logs = Append(@, "got text response")])
                   ELSE [r EXCEPT !.st.response_text = @ \o UNDEFINED_TEXT,
                                  !.thrown = TRUE]
            ELSE ScanBlocksForText_StoppingAtToolUse(content, k + 1, r)

\* for (const block of content) of test_response_quality, from block k on;
\* a text block without text appends "undefined" and then fails on .length
RECURSIVE ScanBlocksForText(_, _, _)
ScanBlocksForText(content, k, r) ==
  IF k > Len(content) \/ r.thrown THEN r
  ELSE LET block == content[k]
       IN IF block.type = "text"
            THEN IF block.has_text
                   THEN ScanBlocksForText(content, k + 1,
                          [r EXCEPT !.st.response_text = @ \o block.text,
                                    !.st.logs = Append(@, "got text response")])
                   ELSE [r EXCEPT !.st.response_text = @ \o UNDEFINED_TEXT,
                                  !.thrown = TRUE]
            ELSE ScanBlocksForText(content, k + 1, r)

\* the usage step shared by both loops
TakeUsage(st, message) ==
  LET st0 == [st EXCEPT !.logs = Append(@, "message type"), !.n = @ + 1]
  IN IF message.type = "assistant" /\ message.has_body /\ message.has_usage
       THEN [st0 EXCEPT !.usage = AddUsage(@, message.usage)]
       ELSE st0

\* one iteration of the for-await loop of test_skill_activation.
\* outcome: "next" (ask for the next message), "break" (activation found, leave
\* the loop) or "throw" (reading content of a message without body)
ActivationStep(st, message) ==
  LET st1 == TakeUsage(st, message)
  IN IF message.type # "assistant" THEN [st |-> st1, outcome |-> "next"]
     ELSE IF ~message.has_body THEN [st |-> st1, outcome |-> "throw"]
     ELSE LET st2 == IF message.content_is_array
                       THEN ScanBlocksForSkill(message.content, 1, st1)
                       ELSE st1
          IN [st |-> st2,
              outcome |-> IF st2.activated_skill # NULL /\ st2.activated_skill # ""
                            THEN "break" ELSE "next"]

\* one iteration of the for-await loop of test_response_quality
QualityStep(st, message) ==
  LET st1 == TakeUsage(st, message)
  IN IF message.type # "assistant" THEN [st |-> st1, outcome |-> "next"]
     ELSE IF ~message.has_body THEN [st |-> st1, outcome |-> "throw"]
     ELSE IF ~message.content_is_array THEN [st |-> st1, outcome |-> "next"]
     ELSE LET r == ScanBlocksForText(message.content, 1,
                                     [st |-> st1, thrown |-> FALSE])
          IN [st |-> r.st, outcome |-> IF r.thrown THEN "throw" ELSE "next"]

\* ------------------------------------------------------------------ scorer
\* a scorer that forgets the should_activate flag
ActivationPassed_IgnoringFlag(activated_skill, test_case) ==
  activated_skill = test_case.expected_skill

\* activated_skill === test_case.expected_skill && test_case.should_activate
ActivationPassed(activated_skill, test_case) ==
  activated_skill = test_case.expected_skill /\ test_case.should_activate

\* an expected-facts loop that puts each missing fact in front (unshift)
RECURSIVE MissingFacts_Reversed(_, _)
MissingFacts_Reversed(response_text, facts) ==
  IF facts = <<>> THEN <<>>
  ELSE LET fact == Head(facts)
           rest == MissingFacts_Reversed(response_text, Tail(facts))
       IN IF ~Includes(ToLowerCase(response_text), ToLowerCase(fact))
            THEN rest \o <<fact>> ELSE rest

\* the expected-facts loop: facts the lowercased response does not contain
RECURSIVE MissingFacts(_, _)
MissingFacts(response_text, facts) ==
  IF facts = <<>> THEN <<>>
  ELSE LET fact == Head(facts)
           rest == MissingFacts(response_text, Tail(facts))
       IN IF ~Includes(ToLowerCase(response_text), ToLowerCase(fact))
            THEN <<fact>> \o rest ELSE rest

\* the forbidden-content loop: strings the lowercased response does contain
RECURSIVE ForbiddenContent(_, _)
ForbiddenContent(response_text, forbidden) ==
  IF forbidden = <<>> THEN <<>>
  ELSE LET f == Head(forbidden)
           rest == ForbiddenContent(response_text, Tail(forbidden))
       IN IF Includes(ToLowerCase(response_text), ToLowerCase(f))
            THEN <<f>> \o rest ELSE rest

\* a verdict that looks at the missing facts only
QualityPassed_FactsOnly(missing_facts, forbidden_content) ==
  Len(missing_facts) = 0

\* a verdict with the comparison inverted
QualityPassed_Inverted(missing_facts, forbidden_content) ==
  Len(missing_facts) # 0 \/ Len(forbidden_content) # 0

\* missing_facts.length === 0 && forbidden_content.length === 0
QualityPassed(missing_facts, forbidden_content) ==
  Len(missing_facts) = 0 /\ Len(forbidden_content) = 0

\* ----------------------------------------------- results of a test function
\* a catch block that reports the skill detected before the error
ActivationErrorResult_KeepingSkill(test_case, st, thrown) ==
  [test_id |-> test_case.id, passed |-> FALSE,
   expected_skill |-> test_case.expected_skill,
   activated_skill |-> st.activated_skill,
   error |-> ErrorMsg(thrown), logs |-> Append(st.logs, "error"),
   metrics |-> NoMetrics]

\* the catch block of test_skill_activation
ActivationErrorResult(test_case, st, thrown) ==
  [test_id |-> test_case.id, passed |-> FALSE,
   expected_skill |-> test_case.expected_skill, activated_skill |-> NULL,
   error |-> ErrorMsg(thrown), logs |-> Append(st.logs, "error"),
   metrics |-> NoMetrics]

\* a test function that reports a pricing-table miss as a cost of zero
ActivationResult_ZeroCostOnMiss(test_case, st, latency_ms) ==
  LET passed == ActivationPassed(st.activated_skill, test_case)
      total_tokens == calculate_total_tokens(st.usage)
      cost == calculate_cost(st.usage, ModelOf(test_case))
  IN [test_id |-> test_case.id, passed |-> passed,
      expected_skill |-> test_case.expected_skill,
      activated_skill |-> st.activated_skill, error |-> UNDEFINED,
      logs |-> st.logs \o <<"expected/got/passed", "metrics">>,
      metrics |-> Metrics(st.usage, total_tokens, latency_ms,
                          IF cost.ok THEN cost.value ELSE 0)]

\* test_skill_activation after its message loop, with Date.now() - start_time = latency_ms
ActivationResult(test_case, st, latency_ms) ==
  LET passed == ActivationPassed(st.activated_skill, test_case)
      total_tokens == calculate_total_tokens(st.usage)
      cost == calculate_cost(st.usage, ModelOf(test_case))
  IN IF ~cost.ok THEN ActivationErrorResult(test_case, st, UnknownModelThrown)
     ELSE [test_id |-> test_case.id, passed |-> passed,
           expected_skill |-> test_case.expected_skill,
           activated_skill |-> st.activated_skill, error |-> UNDEFINED,
           logs |-> st.logs \o <<"expected/got/passed", "metrics">>,
           metrics |-> Metrics(st.usage, total_tokens, latency_ms, cost.value)]

\* the catch block of test_response_quality
QualityErrorResult(test_case, st, thrown) ==
  [test_id |-> test_case.id, passed |-> FALSE, missing_facts |-> <<>>,
   forbidden_content |-> <<>>, response_preview |-> T_empty,
   response_full_text |-> UNDEFINED_TEXT, error |-> ErrorMsg(thrown),
   logs |-> Append(st.logs, "error"), metrics |-> NoMetrics]

\* test_response_quality after its message loop
QualityResult(test_case, st, latency_ms) ==
  LET missing_facts == IF test_case.has_expected_facts
                         THEN MissingFacts(st.response_text, test_case.expected_facts)
                         ELSE <<>>
      forbidden_content == IF test_case.has_must_not_contain
                             THEN ForbiddenContent(st.response_text,
                                                   test_case.must_not_contain)
                             ELSE <<>>
      passed == QualityPassed(missing_facts, forbidden_content)
      total_tokens == calculate_total_tokens(st.usage)
      cost == calculate_cost(st.usage, ModelOf(test_case))
  IN IF ~cost.ok THEN QualityErrorResult(test_case, st, UnknownModelThrown)
     ELSE [test_id |-> test_case.id, passed |-> passed,
           missing_facts |-> missing_facts,
           forbidden_content |-> forbidden_content,
           response_preview |-> Substring0(st.response_text, PreviewLen),
           response_full_text |-> st.response_text, error |-> UNDEFINED,
           logs |-> st.logs
                      \o <<"passed">>
                      \o (IF Len(missing_facts) > 0 THEN <<"missing facts">> ELSE <<>>)
                      \o (IF Len(forbidden_content) > 0
                            THEN <<"forbidden content found">> ELSE <<>>)
                      \o <<"metrics">>,
           metrics |-> Metrics(st.usage, total_tokens, latency_ms, cost.value)]

\* --------------------------------------------------------------- persistence
\* x || null on a text value
OrNullText(x) == IF x = UNDEFINED \/ x = "" THEN NULL ELSE x

\* r.metrics?.field || null on a numeric value
OrNullNum(metrics, value) == IF ~metrics.has \/ value = 0 THEN NULL_NUM ELSE value

\* flag ? 1 : 0
Bit(flag) == IF flag THEN 1 ELSE 0

NO_RUN == 0   \* let run_id: string | null = null

EmptyDb ==
  [test_runs |-> <<>>, activation_results |-> <<>>, quality_results |-> <<>>,
   missing_facts |-> <<>>, forbidden_content |-> <<>>, test_logs |-> <<>>,
   skill_versions |-> <<>>, test_run_skill_versions |-> {}]

\* a create_test_run that starts the run with every test counted as failed
create_test_run_AllFailed(d, model, test_type, total_tests) ==
  LET id == Len(d.test_runs) + 1
  IN [run_id |-> id,
      db |-> [d EXCEPT !.test_runs = Append(@,
                [id |-> id, model |-> model, total_tests |-> total_tests,
                 passed_tests |-> 0, failed_tests |-> total_tests,
                 test_type |-> test_type,
                 total_input_tokens |-> 0, total_output_tokens |-> 0,
                 total_cache_read_tokens |-> 0, total_latency_ms |-> 0,
                 total_cost_usd |-> 0, avg_latency_ms |-> <<0, 1>>,
                 updates |-> 0])]]

\* create_test_run: the INSERT INTO test_runs; identifiers are fresh, here the
\* position of the row
create_test_run(d, model, test_type, total_tests) ==
  LET id == Len(d.test_runs) + 1
  IN [run_id |-> id,
      db |-> [d EXCEPT !.test_runs = Append(@,
                [id |-> id, model |-> model, total_tests |-> total_tests,
                 passed_tests |-> 0, failed_tests |-> 0, test_type |-> test_type,
                 total_input_tokens |-> 0, total_output_tokens |-> 0,
                 total_cache_read_tokens |-> 0, total_latency_ms |-> 0,
                 total_cost_usd |-> 0, avg_latency_ms |-> <<0, 1>>,
                 updates |-> 0])]]

\* an update that writes the pass count and the usage aggregates but leaves
\* failed_tests as it was
update_test_run_KeepingFailed(d, a) ==
  [d EXCEPT !.test_runs =
     [k \in 1..Len(@) |->
        IF @[k].id = a.run_id
          THEN [@[k] EXCEPT !.passed_tests = a.passed_tests,
                            !.total_input_tokens = a.total_input_tokens,
                            !.total_output_tokens = a.total_output_tokens,
                            !.total_cache_read_tokens = a.total_cache_read_tokens,
                            !.total_latency_ms = a.total_latency_ms,
                            !.total_cost_usd = a.total_cost_usd,
                            !.avg_latency_ms = a.avg_latency_ms,
                            !.updates = @ + 1]
          ELSE @[k]]]

\* update_test_run: UPDATE test_runs SET ... WHERE id = run_id
\* (updates counts the UPDATE statements applied to the row)
update_test_run(d, a) ==
  [d EXCEPT !.test_runs =
     [k \in 1..Len(@) |->
        IF @[k].id = a.run_id
          THEN [@[k] EXCEPT !.passed_tests = a.passed_tests,
                            !.failed_tests = a.failed_tests,
                            !.total_input_tokens = a.total_input_tokens,
                            !.total_output_tokens = a.total_output_tokens,
                            !.total_cache_read_tokens = a.total_cache_read_tokens,
                            !.total_latency_ms = a.total_latency_ms,
                            !.total_cost_usd = a.total_cost_usd,
                            !.avg_latency_ms = a.avg_latency_ms,
                            !.updates = @ + 1]
          ELSE @[k]]]

\* the row bound by store_activation_result
ActivationRow(id, run_id, r, query, should_activate) ==
  [id |-> id, run_id |-> run_id, test_id |-> r.test_id,
   query |-> IF query = UNDEFINED THEN "" ELSE query,
   expected_skill |-> r.expected_skill, activated_skill |-> r.activated_skill,
   should_activate |-> Bit(should_activate), passed |-> Bit(r.passed),
   error |-> OrNullText(r.error), test_case_source |-> "synthetic",
   session_context |-> NULL,
   input_tokens |-> OrNullNum(r.metrics, r.metrics.input_tokens),
   output_tokens |-> OrNullNum(r.metrics, r.metrics.output_tokens),
   cache_creation_tokens |-> OrNullNum(r.metrics, r.metrics.cache_creation_tokens),
   cache_read_tokens |-> OrNullNum(r.metrics, r.metrics.cache_read_tokens),
   thinking_tokens |-> OrNullNum(r.metrics, r.metrics.thinking_tokens),
   latency_ms |-> OrNullNum(r.metrics, r.metrics.latency_ms),
   estimated_cost_usd |-> OrNullNum(r.metrics, r.metrics.estimated_cost_usd)]

\* the row bound by store_quality_result
QualityRow(id, run_id, r, query, skill, response_full_text) ==
  [id |-> id, run_id |-> run_id, test_id |-> r.test_id, skill |-> skill,
   query |-> query, response_preview |-> r.response_preview,
   response_full_text |->
     IF response_full_text = UNDEFINED_TEXT \/ response_full_text = T_empty
       THEN <<NULL>> ELSE response_full_text,
   passed |-> Bit(r.passed), error |-> OrNullText(r.error),
   test_case_source |-> "synthetic", session_context |-> NULL,
   input_tokens |-> OrNullNum(r.metrics, r.metrics.input_tokens),
   output_tokens |-> OrNullNum(r.metrics, r.metrics.output_tokens),
   cache_creation_tokens |-> OrNullNum(r.metrics, r.metrics.cache_creation_tokens),
   cache_read_tokens |-> OrNullNum(r.metrics, r.metrics.cache_read_tokens),
   thinking_tokens |-> OrNullNum(r.metrics, r.metrics.thinking_tokens),
   latency_ms |-> OrNullNum(r.metrics, r.metrics.latency_ms),
   estimated_cost_usd |-> OrNullNum(r.metrics, r.metrics.estimated_cost_usd)]

\* rows of a child table for one result, in list order
ChildRows(result_id, column, values) ==
  [k \in 1..Len(values) |-> [result_id |-> result_id, column |-> column,
                             value |-> values[k]]]

LogRows(result_id, test_type, logs) ==
  [k \in 1..Len(logs) |-> [test_result_id |-> result_id, test_type |-> test_type,
                           log_message |-> logs[k]]]

\* the statements store_activation_result runs, in order: the result row, then
\* one test_logs row per log line
ActivationStatements(d, run_id, r, query, should_activate) ==
  LET id == Len(d.activation_results) + 1
  IN <<[table |-> "activation_results",
        row |-> ActivationRow(id, run_id, r, query, should_activate)]>>
     \o [k \in 1..Len(r.logs) |->
           [table |-> "test_logs", row |-> LogRows(id, "activation", r.logs)[k]]]

\* a store_quality_result that writes the missing facts after the logs
QualityStatements_FactsLast(d, run_id, r, query, skill, response_full_text) ==
  LET id == Len(d.quality_results) + 1
  IN <<[table |-> "quality_results",
        row |-> QualityRow(id, run_id, r, query, skill, response_full_text)]>>
     \o [k \in 1..Len(r.forbidden_content) |->
           [table |-> "forbidden_content",
            row |-> ChildRows(id, "content", r.forbidden_content)[k]]]
     \o [k \in 1..Len(r.logs) |->
           [table |-> "test_logs", row |-> LogRows(id, "quality", r.logs)[k]]]
     \o [k \in 1..Len(r.missing_facts) |->
           [table |-> "missing_facts",
            row |-> ChildRows(id, "fact", r.missing_facts)[k]]]

\* the statements store_quality_result runs, in order: the result row, the
\* missing facts, the forbidden content, the logs
QualityStatements(d, run_id, r, query, skill, response_full_text) ==
  LET id == Len(d.quality_results) + 1
  IN <<[table |-> "quality_results",
        row |-> QualityRow(id, run_id, r, query, skill, response_full_text)]>>
     \o [k \in 1..Len(r.missing_facts) |->
           [table |-> "missing_facts",
            row |-> ChildRows(id, "fact", r.missing_facts)[k]]]
     \o [k \in 1..Len(r.forbidden_content) |->
           [table |-> "forbidden_content",
            row |-> ChildRows(id, "content", r.forbidden_content)[k]]]
     \o [k \in 1..Len(r.logs) |->
           [table |-> "test_logs", row |-> LogRows(id, "quality", r.logs)[k]]]

\* a store command that runs its statements in one transaction: all of them
\* or, when one throws, none
RECURSIVE RunStatements_Transactional(_, _, _)
RunStatements_Transactional(d, statements, done) ==
  IF done < Len(statements) \/ statements = <<>> THEN d
  ELSE LET s == Head(statements)
       IN RunStatements_Transactional([d EXCEPT ![s.table] = Append(@, s.row)],
                                      Tail(statements), done - 1)

\* stmt.run of the first `done` statements (each INSERT commits on its own;
\* the commands open no transaction)
RECURSIVE RunStatements(_, _, _)
RunStatements(d, statements, done) ==
  IF done = 0 \/ statements = <<>> THEN d
  ELSE LET s == Head(statements)
       IN RunStatements([d EXCEPT ![s.table] = Append(@, s.row)],
                        Tail(statements), done - 1)

\* ------------------------------------------------------ skill version tracker
TrackedSkills == {"svelte5-runes"}
Contents == {"content-1", "content-2"}

\* the fingerprint of a skill's file set
ContentHash(content) == <<"sha256", content>>

\* a tracker that inserts a version row without looking for an existing one
StoreSkillVersion_AlwaysInserting(d, skill, content) ==
  LET id == Len(d.skill_versions) + 1
  IN [db |-> [d EXCEPT !.skill_versions = Append(@,
                [id |-> id, skill_name |-> skill,
                 content_hash |-> ContentHash(content)])],
      id |-> id]

\* lookup-or-insert of one skill's current version; returns the database and the
\* version identifier
StoreSkillVersion(d, skill, content) ==
  LET hash == ContentHash(content)
      found == {k \in 1..Len(d.skill_versions) :
                  /\ d.skill_versions[k].skill_name = skill
                  /\ d.skill_versions[k].content_hash = hash}
  IN IF found # {}
       THEN [db |-> d, id |-> d.skill_versions[CHOOSE k \in found : TRUE].id]
       ELSE LET id == Len(d.skill_versions) + 1
            IN [db |-> [d EXCEPT !.skill_versions = Append(@,
                          [id |-> id, skill_name |-> skill, content_hash |-> hash])],
                id |-> id]

\* store_skill_versions: every tracked skill, as found on disk now
RECURSIVE store_skill_versions(_, _, _)
store_skill_versions(d, files, skills) ==
  IF skills = {} THEN [db |-> d, versions |-> {}]
  ELSE LET skill == CHOOSE x \in skills : TRUE
           one == StoreSkillVersion(d, skill, files[skill])
           rest == store_skill_versions(one.db, files, skills \ {skill})
       IN [db |-> rest.db, versions |-> {one.id} \cup rest.versions]

\* link_test_run_to_skill_versions
link_test_run_to_skill_versions(d, test_run_id, skill_version_ids) ==
  [d EXCEPT !.test_run_skill_versions =
     @ \cup {<<test_run_id, v>> : v \in skill_version_ids}]

\* ------------------------------------------------------------ run orchestrator
VARIABLES
  batch,    \* batch[b]: the locals of one run_*_tests invocation
  db,       \* the eval database
  disk,     \* disk[skill]: the content of the skill's files
  faults,   \* persistence calls that have thrown so far
  events    \* history: the calls, returns and persistence attempts, in order

vars == <<batch, db, disk, faults, events>>

Latencies == {40}   \* readings of Date.now() - start_time

\* the locals of a batch invocation as it is entered
NewBatch(kind, test_cases) ==
  [pc |-> "init", kind |-> kind, test_cases |-> test_cases, i |-> 1,
   run_id |-> NO_RUN, results |-> <<>>,
   total_input_tokens |-> 0, total_output_tokens |-> 0,
   total_cache_read_tokens |-> 0, total_latency_ms |-> 0, total_cost_usd |-> 0,
   passed_count |-> 0, failed_count |-> 0, avg_latency_ms |-> <<0, 1>>,
   call |-> NewCall, returned |-> <<>>,
   inputs |-> <<>>,   \* history: the stream events of the call of case i
   alone |-> <<>>]    \* history: what each case returns when run alone

NotInvoked == [NewBatch("activation", <<>>) EXCEPT !.pc = "idle"]

CatalogOf(kind) == IF kind = "activation" THEN ActivationCatalog ELSE QualityCatalog

Init ==
  /\ \E kind \in {"activation", "quality"} :
       \E test_cases \in SeqsUpTo(CatalogOf(kind), MaxCases) :
         batch = [b \in Batches |->
                    IF b = "A" THEN NewBatch(kind, test_cases) ELSE NotInvoked]
  /\ db = EmptyDb
  /\ disk \in [TrackedSkills -> {"content-1"}]
  /\ faults = 0
  /\ events = <<>>

\* test_cases[0]?.model || 'claude-sonnet-4-5-20250929'
RunModel(test_cases) ==
  IF Len(test_cases) = 0 THEN DEFAULT_MODEL ELSE ModelOf(test_cases[1])

\* an initialisation that binds the run identifier before create_test_run has
\* written the run record
InitStorage_BindingEarly(b) ==
  /\ batch[b].pc = "init"
  /\ \E failed \in {"store_skill_versions", "create_test_run",
                    "link_test_run_to_skill_versions", "none"} :
       LET stored == store_skill_versions(db, disk, TrackedSkills)
           created == create_test_run(stored.db, RunModel(batch[b].test_cases),
                                      batch[b].kind, Len(batch[b].test_cases))
           linked == link_test_run_to_skill_versions(created.db, created.run_id,
                                                     stored.versions)
       IN /\ failed # "none" => faults < MaxFaults
          /\ faults' = IF failed # "none" THEN faults + 1 ELSE faults
          /\ db' = CASE failed = "store_skill_versions" -> db
                     [] failed = "create_test_run" -> stored.db
                     [] failed = "link_test_run_to_skill_versions" -> created.db
                     [] OTHER -> linked
          /\ batch' = [batch EXCEPT ![b].pc = "loop",
                                    ![b].run_id =
                                      IF failed = "store_skill_versions"
                                        THEN NO_RUN ELSE created.run_id]
          /\ events' = Append(events, <<"init", b, failed>>)
  /\ UNCHANGED disk

\* an initialisation that leaves the linking of the versions for later
InitStorage_NotLinking(b) ==
  /\ batch[b].pc = "init"
  /\ \E failed \in {"store_skill_versions", "create_test_run",
                    "link_test_run_to_skill_versions", "none"} :
       LET stored == store_skill_versions(db, disk, TrackedSkills)
           created == create_test_run(stored.db, RunModel(batch[b].test_cases),
                                      batch[b].kind, Len(batch[b].test_cases))
       IN /\ failed # "none" => faults < MaxFaults
          /\ faults' = IF failed # "none" THEN faults + 1 ELSE faults
          /\ db' = CASE failed = "store_skill_versions" -> db
                     [] failed = "create_test_run" -> stored.db
                     [] OTHER -> created.db
          /\ batch' = [batch EXCEPT ![b].pc = "loop",
                                    ![b].run_id =
                                      IF failed \in {"store_skill_versions",
                                                     "create_test_run"}
                                        THEN NO_RUN ELSE created.run_id]
          /\ events' = Append(events, <<"init", b, failed>>)
  /\ UNCHANGED disk

\* an initialisation that gives up the run identifier when the linking threw
InitStorage_UnbindingOnLinkFailure(b) ==
  /\ batch[b].pc = "init"
  /\ \E failed \in {"store_skill_versions", "create_test_run",
                    "link_test_run_to_skill_versions", "none"} :
       LET stored == store_skill_versions(db, disk, TrackedSkills)
           created == create_test_run(stored.db, RunModel(batch[b].test_cases),
                                      batch[b].kind, Len(batch[b].test_cases))
           linked == link_test_run_to_skill_versions(created.db, created.run_id,
                                                     stored.versions)
       IN /\ failed # "none" => faults < MaxFaults
          /\ faults' = IF failed # "none" THEN faults + 1 ELSE faults
          /\ db' = CASE failed = "store_skill_versions" -> db
                     [] failed = "create_test_run" -> stored.db
                     [] failed = "link_test_run_to_skill_versions" -> created.db
                     [] OTHER -> linked
          /\ batch' = [batch EXCEPT ![b].pc = "loop",
                                    ![b].run_id =
                                      IF failed # "none"
                                        THEN NO_RUN ELSE created.run_id]
          /\ events' = Append(events, <<"init", b, failed>>)
  /\ UNCHANGED disk

\* the try block that opens run_activation_tests / run_quality_tests:
\* store_skill_versions, create_test_run, link_test_run_to_skill_versions.
\* failed names the call that threw ("none": no call threw)
InitStorage(b) ==
  /\ batch[b].pc = "init"
  /\ \E failed \in {"store_skill_versions", "create_test_run",
                    "link_test_run_to_skill_versions", "none"} :
       LET stored == store_skill_versions(db, disk, TrackedSkills)
           created == create_test_run(stored.db, RunModel(batch[b].test_cases),
                                      batch[b].kind, Len(batch[b].test_cases))
           linked == link_test_run_to_skill_versions(created.db, created.run_id,
                                                     stored.versions)
       IN /\ failed # "none" => faults < MaxFaults
          /\ faults' = IF failed # "none" THEN faults + 1 ELSE faults
          /\ db' = CASE failed = "store_skill_versions" -> db
                     [] failed = "create_test_run" -> stored.db
                     [] failed = "link_test_run_to_skill_versions" -> created.db
                     [] OTHER -> linked
          /\ batch' = [batch EXCEPT ![b].pc = "loop",
                                    ![b].run_id =
                                      IF failed \in {"store_skill_versions",
                                                     "create_test_run"}
                                        THEN NO_RUN ELSE created.run_id]
          /\ events' = Append(events, <<"init", b, failed>>)
  /\ UNCHANGED disk

\* a loop that does not await the store of a case before calling the agent for
\* the next one
StartCase_Overlapping(b) ==
  \/ /\ batch[b].pc = "loop"
     /\ batch[b].i <= Len(batch[b].test_cases)
     /\ batch' = [batch EXCEPT ![b].pc = "stream", ![b].call = NewCall,
                               ![b].inputs = <<>>]
     /\ events' = Append(events, <<"call", b, batch[b].i>>)
     /\ UNCHANGED <<db, disk, faults>>
  \/ /\ batch[b].pc = "store"
     /\ batch[b].i < Len(batch[b].test_cases)
     /\ batch' = [batch EXCEPT ![b].pc = "stream", ![b].call = NewCall,
                               ![b].inputs = <<>>, ![b].i = @ + 1]
     /\ events' = Append(events, <<"call", b, batch[b].i + 1>>)
     /\ UNCHANGED <<db, disk, faults>>

\* the loop head with i < test_cases.length: the test function is entered and
\* the agent is called
StartCase(b) ==
  /\ batch[b].pc = "loop"
  /\ batch[b].i <= Len(batch[b].test_cases)
  /\ batch' = [batch EXCEPT ![b].pc = "stream", ![b].call = NewCall,
                            ![b].inputs = <<>>]
  /\ events' = Append(events, <<"call", b, batch[b].i>>)
  /\ UNCHANGED <<db, disk, faults>>

\* a loop that walks the submitted cases from the last to the first
CurrentCase_Reversed(b) ==
  batch[b].test_cases[Len(batch[b].test_cases) + 1 - batch[b].i]

CurrentCase(b) == batch[b].test_cases[batch[b].i]

\* one iteration of the for-await loop of the test function of this kind
Step(kind, st, message) ==
  IF kind = "activation" THEN ActivationStep(st, message)
                         ELSE QualityStep(st, message)

\* the result of a test function whose message loop is left normally
NormalResult(kind, test_case, st, latency_ms) ==
  IF kind = "activation" THEN ActivationResult(test_case, st, latency_ms)
                         ELSE QualityResult(test_case, st, latency_ms)

\* the result of a test function whose try block throws
ErrorResult(kind, test_case, st, thrown) ==
  IF kind = "activation" THEN ActivationErrorResult(test_case, st, thrown)
                         ELSE QualityErrorResult(test_case, st, thrown)

\* what a fresh call of the test function returns on the stream events `stream`
\* (messages, then the latency read after the loop or what the stream raised)
RECURSIVE Replay(_, _, _, _)
Replay(kind, test_case, st, stream) ==
  LET e == Head(stream)
  IN CASE e[1] = "message" ->
            LET step == Step(kind, st, e[2])
            IN IF step.outcome = "throw"
                 THEN ErrorResult(kind, test_case, step.st, TypeErrorThrown)
                 ELSE Replay(kind, test_case, step.st, Tail(stream))
       [] e[1] = "scored" -> NormalResult(kind, test_case, st, e[2])
       [] OTHER -> ErrorResult(kind, test_case, st, e[2])

RunAlone(kind, test_case, stream) == Replay(kind, test_case, NewCall, stream)

\* the test function returns `result`; the batch pushes it on results.
\* last: the stream events that led to the return; how: "scored", "raised" (the
\* agent call or stream raised) or "threw" (the function's own code threw)
Return(b, result, last, how) ==
  /\ batch' = [batch EXCEPT ![b].pc = "store",
                            ![b].results = Append(@, result),
                            ![b].inputs = @ \o last,
                            ![b].alone =
                              Append(@, RunAlone(batch[b].kind, CurrentCase(b),
                                                 batch[b].inputs \o last))]
  /\ events' = Append(events, <<"result", b, batch[b].i, how>>)
  /\ UNCHANGED <<db, disk, faults>>

\* the stream yields `message`: one iteration of the for-await loop, and what
\* follows it when the loop is left
Receive(b, message) ==
  /\ batch[b].pc = "stream"
  /\ batch[b].call.n < MaxMsgs
  /\ LET step == Step(batch[b].kind, batch[b].call, message)
         received == <<"message", message>>
     IN CASE step.outcome = "next" ->
               /\ batch' = [batch EXCEPT ![b].call = step.st,
                                         ![b].inputs = Append(@, received)]
               /\ UNCHANGED <<db, disk, faults, events>>
          [] step.outcome = "break" ->
               \E latency_ms \in Latencies :
                 Return(b, NormalResult(batch[b].kind, CurrentCase(b), step.st,
                                        latency_ms),
                        <<received, <<"scored", latency_ms>>>>, "scored")
          [] OTHER ->
               Return(b, ErrorResult(batch[b].kind, CurrentCase(b), step.st,
                                     TypeErrorThrown),
                      <<received>>, "threw")

\* the stream ends: the loop is left and the case is scored
StreamEnd(b) ==
  /\ batch[b].pc = "stream"
  /\ \E latency_ms \in Latencies :
       Return(b, NormalResult(batch[b].kind, CurrentCase(b), batch[b].call,
                              latency_ms),
              <<<<"scored", latency_ms>>>>, "scored")

\* a test function that calls the agent again when the call raised
StreamRaise_Retrying(b, thrown) ==
  /\ batch[b].pc = "stream"
  /\ faults < MaxFaults
  /\ faults' = faults + 1
  /\ batch' = [batch EXCEPT ![b].pc = "loop"]
  /\ events' = Append(events, <<"retry", b, batch[b].i, thrown.is_error>>)
  /\ UNCHANGED <<db, disk>>

\* the agent call, or the stream, raises
StreamRaise(b, thrown) ==
  /\ batch[b].pc = "stream"
  /\ Return(b, ErrorResult(batch[b].kind, CurrentCase(b), batch[b].call, thrown),
            <<<<"raised", thrown>>>>, "raised")

\* an aggregation that counts the usage of passed cases only
Aggregate_PassedOnly(bt, result) ==
  LET m == result.metrics
  IN IF result.passed /\ m.has
       THEN [bt EXCEPT !.total_input_tokens = @ + m.input_tokens,
                       !.total_output_tokens = @ + m.output_tokens,
                       !.total_cache_read_tokens = @ + m.cache_read_tokens,
                       !.total_latency_ms = @ + m.latency_ms,
                       !.total_cost_usd = @ + m.estimated_cost_usd,
                       !.passed_count = @ + 1]
       ELSE IF result.passed THEN [bt EXCEPT !.passed_count = @ + 1]
       ELSE bt

\* the "Aggregate metrics" block of the loop body
Aggregate(bt, result) ==
  LET m == result.metrics
      bt1 == IF m.has
               THEN [bt EXCEPT !.total_input_tokens = @ + m.input_tokens,
                               !.total_output_tokens = @ + m.output_tokens,
                               !.total_cache_read_tokens = @ + m.cache_read_tokens,
                               !.total_latency_ms = @ + m.latency_ms,
                               !.total_cost_usd = @ + m.estimated_cost_usd]
               ELSE bt
  IN IF result.passed THEN [bt1 EXCEPT !.passed_count = @ + 1] ELSE bt1

\* store statements that take the run identifier from the run created last,
\* as a run identifier shared by the invocations would
StoreStatements_LatestRun(b, result) ==
  LET test_case == batch[b].test_cases[batch[b].i]
      latest == Len(db.test_runs)
  IN IF batch[b].kind = "activation"
       THEN ActivationStatements(db, latest, result, test_case.query,
                                 test_case.should_activate)
       ELSE QualityStatements(db, latest, result, test_case.query,
                              test_case.skill, result.response_full_text)

\* the statements the store command of this batch's kind runs for `result`
StoreStatements(b, result) ==
  LET test_case == CurrentCase(b)
  IN IF batch[b].kind = "activation"
       THEN ActivationStatements(db, batch[b].run_id, result, test_case.query,
                                 test_case.should_activate)
       ELSE QualityStatements(db, batch[b].run_id, result, test_case.query,
                              test_case.skill, result.response_full_text)

\* how many statements of a store command complete before one throws: none, the
\* result row alone, or all of them (the command returns)
StoreOutcomes(statements) == {0, 1, Len(statements)}

\* a loop body that marks the result as failed when its store command threw
StoreResult_MarkingUnstored(b) ==
  /\ batch[b].pc = "store"
  /\ LET result == batch[b].results[batch[b].i]
         statements == StoreStatements(b, result)
     IN IF batch[b].run_id # NO_RUN
          THEN \E done \in StoreOutcomes(statements) :
                 LET kept == IF done < Len(statements)
                               THEN [result EXCEPT !.passed = FALSE,
                                                   !.error = "not stored"]
                               ELSE result
                 IN /\ done < Len(statements) => faults < MaxFaults
                    /\ faults' = IF done < Len(statements) THEN faults + 1 ELSE faults
                    /\ db' = RunStatements(db, statements, done)
                    /\ events' = Append(events,
                         <<"store", b, batch[b].i,
                           IF done = Len(statements) THEN "stored" ELSE "failed",
                           IF done > 0 THEN statements[1].row.id ELSE 0>>)
                    /\ batch' = [batch EXCEPT ![b] =
                         [Aggregate(batch[b], kept) EXCEPT
                            !.results = [@ EXCEPT ![batch[b].i] = kept],
                            !.i = @ + 1, !.pc = "loop", !.inputs = <<>>]]
          ELSE /\ db' = db
               /\ faults' = faults
               /\ events' = Append(events, <<"store", b, batch[b].i, "skipped", 0>>)
               /\ batch' = [batch EXCEPT ![b] =
                              [Aggregate(batch[b], result) EXCEPT !.i = @ + 1,
                                                                  !.pc = "loop",
                                                                  !.inputs = <<>>]]
  /\ UNCHANGED disk

\* a loop body without the try/catch around the store command: a store that
\* throws ends the loop
StoreResult_AbortingOnFailure(b) ==
  /\ batch[b].pc = "store"
  /\ LET result == batch[b].results[batch[b].i]
         statements == StoreStatements(b, result)
     IN IF batch[b].run_id # NO_RUN
          THEN \E done \in StoreOutcomes(statements) :
                 /\ done < Len(statements) => faults < MaxFaults
                 /\ faults' = IF done < Len(statements) THEN faults + 1 ELSE faults
                 /\ db' = RunStatements(db, statements, done)
                 /\ events' = Append(events,
                      <<"store", b, batch[b].i,
                        IF done = Len(statements) THEN "stored" ELSE "failed",
                        IF done > 0 THEN statements[1].row.id ELSE 0>>)
                 /\ batch' = [batch EXCEPT ![b] =
                      IF done < Len(statements)
                        THEN [batch[b] EXCEPT !.i = Len(batch[b].test_cases) + 1,
                                              !.pc = "loop", !.inputs = <<>>]
                        ELSE [Aggregate(batch[b], result) EXCEPT
                                !.i = @ + 1, !.pc = "loop", !.inputs = <<>>]]
          ELSE /\ db' = db
               /\ faults' = faults
               /\ events' = Append(events, <<"store", b, batch[b].i, "skipped", 0>>)
               /\ batch' = [batch EXCEPT ![b] =
                              [Aggregate(batch[b], result) EXCEPT !.i = @ + 1,
                                                                  !.pc = "loop",
                                                                  !.inputs = <<>>]]
  /\ UNCHANGED disk

\* a loop body that stores the result whether or not there is a run identifier
StoreResult_Unconditional(b) ==
  /\ batch[b].pc = "store"
  /\ LET result == batch[b].results[batch[b].i]
         statements == StoreStatements(b, result)
     IN /\ \E done \in StoreOutcomes(statements) :
             /\ done < Len(statements) => faults < MaxFaults
             /\ faults' = IF done < Len(statements) THEN faults + 1 ELSE faults
             /\ db' = RunStatements(db, statements, done)
             /\ events' = Append(events,
                  <<"store", b, batch[b].i,
                    IF done = Len(statements) THEN "stored" ELSE "failed",
                    IF done > 0 THEN statements[1].row.id ELSE 0>>)
        /\ batch' = [batch EXCEPT ![b] =
                       [Aggregate(batch[b], result) EXCEPT !.i = @ + 1,
                                                           !.pc = "loop",
                                                           !.inputs = <<>>]]
  /\ UNCHANGED disk

\* the rest of the loop body after the test function returned: the store
\* attempt inside try/catch (only with a run identifier), the aggregation, i++
StoreResult(b) ==
  /\ batch[b].pc = "store"
  /\ LET result == batch[b].results[batch[b].i]
         statements == StoreStatements(b, result)
     IN /\ IF batch[b].run_id # NO_RUN
             THEN \E done \in StoreOutcomes(statements) :
                    /\ done < Len(statements) => faults < MaxFaults
                    /\ faults' = IF done < Len(statements) THEN faults + 1 ELSE faults
                    /\ db' = RunStatements(db, statements, done)
                    /\ events' = Append(events,
                         <<"store", b, batch[b].i,
                           IF done = Len(statements) THEN "stored" ELSE "failed",
                           IF done > 0 THEN statements[1].row.id ELSE 0>>)
             ELSE /\ db' = db
                  /\ faults' = faults
                  /\ events' = Append(events, <<"store", b, batch[b].i, "skipped", 0>>)
        /\ batch' = [batch EXCEPT ![b] =
                       [Aggregate(batch[b], result) EXCEPT !.i = @ + 1,
                                                           !.pc = "loop",
                                                           !.inputs = <<>>]]
  /\ UNCHANGED disk

\* an average without the guard for the empty batch
AvgLatency_Unguarded(total_latency_ms, length) == <<total_latency_ms, length>>

\* total_latency_ms / test_cases.length, 0 for an empty batch; a quotient is
\* kept as the pair <<numerator, denominator>>
AvgLatency(total_latency_ms, length) ==
  IF length > 0 THEN <<total_latency_ms, length>> ELSE <<0, 1>>

\* finalization arguments whose failed_tests leaves the errored cases out
FinalAggregates_ErrorsNotFailed(bt) ==
  [run_id |-> bt.run_id, passed_tests |-> bt.passed_count,
   failed_tests |-> Cardinality({k \in DOMAIN bt.results :
                       ~bt.results[k].passed /\ bt.results[k].error = UNDEFINED}),
   total_input_tokens |-> bt.total_input_tokens,
   total_output_tokens |-> bt.total_output_tokens,
   total_cache_read_tokens |-> bt.total_cache_read_tokens,
   total_latency_ms |-> bt.total_latency_ms,
   total_cost_usd |-> bt.total_cost_usd,
   avg_latency_ms |-> IF Len(bt.test_cases) > 0
                        THEN <<bt.total_latency_ms, Len(bt.test_cases)>>
                        ELSE <<0, 1>>]

\* the arguments of the update_test_run call
FinalAggregates(bt) ==
  [run_id |-> bt.run_id, passed_tests |-> bt.passed_count,
   failed_tests |-> Len(bt.test_cases) - bt.passed_count,
   total_input_tokens |-> bt.total_input_tokens,
   total_output_tokens |-> bt.total_output_tokens,
   total_cache_read_tokens |-> bt.total_cache_read_tokens,
   total_latency_ms |-> bt.total_latency_ms,
   total_cost_usd |-> bt.total_cost_usd,
   avg_latency_ms |-> AvgLatency(bt.total_latency_ms, Len(bt.test_cases))]

\* a finalization that deletes the rows of the run when update_test_run threw
Finalize_RollingBack(b) ==
  /\ batch[b].pc = "loop"
  /\ batch[b].i > Len(batch[b].test_cases)
  /\ LET a == FinalAggregates(batch[b])
         kept(table) == SelectSeq(table, LAMBDA row : row.run_id # batch[b].run_id)
     IN /\ \E outcome \in (IF batch[b].run_id # NO_RUN
                             THEN {"updated", "failed"} ELSE {"skipped"}) :
             /\ outcome = "failed" => faults < MaxFaults
             /\ faults' = IF outcome = "failed" THEN faults + 1 ELSE faults
             /\ db' = CASE outcome = "updated" -> update_test_run(db, a)
                        [] outcome = "failed" ->
                             [db EXCEPT !.activation_results = kept(@),
                                        !.quality_results = kept(@)]
                        [] OTHER -> db
             /\ events' = Append(events, <<"finalize", b, outcome>>)
        /\ batch' = [batch EXCEPT ![b].pc = "done",
                                  ![b].failed_count = a.failed_tests,
                                  ![b].avg_latency_ms = a.avg_latency_ms,
                                  ![b].returned = batch[b].results]
  /\ UNCHANGED disk

\* a finalization that captures the skill versions again and links them
Finalize_Recapturing(b) ==
  /\ batch[b].pc = "loop"
  /\ batch[b].i > Len(batch[b].test_cases)
  /\ LET a == FinalAggregates(batch[b])
         updated == update_test_run(db, a)
         stored == store_skill_versions(updated, disk, TrackedSkills)
     IN /\ \E outcome \in (IF batch[b].run_id # NO_RUN
                             THEN {"updated", "failed"} ELSE {"skipped"}) :
             /\ outcome = "failed" => faults < MaxFaults
             /\ faults' = IF outcome = "failed" THEN faults + 1 ELSE faults
             /\ db' = IF outcome = "updated"
                        THEN link_test_run_to_skill_versions(stored.db,
                               batch[b].run_id, stored.versions)
                        ELSE db
             /\ events' = Append(events, <<"finalize", b, outcome>>)
        /\ batch' = [batch EXCEPT ![b].pc = "done",
                                  ![b].failed_count = a.failed_tests,
                                  ![b].avg_latency_ms = a.avg_latency_ms,
                                  ![b].returned = batch[b].results]
  /\ UNCHANGED disk

\* after the loop: failed_count, avg_latency_ms, the update_test_run call inside
\* try/catch (only with a run identifier), and the return of results
Finalize(b) ==
  /\ batch[b].pc = "loop"
  /\ batch[b].i > Len(batch[b].test_cases)
  /\ LET a == FinalAggregates(batch[b])
     IN /\ \E outcome \in (IF batch[b].run_id # NO_RUN
                             THEN {"updated", "failed"} ELSE {"skipped"}) :
             /\ outcome = "failed" => faults < MaxFaults
             /\ faults' = IF outcome = "failed" THEN faults + 1 ELSE faults
             /\ db' = IF outcome = "updated" THEN update_test_run(db, a) ELSE db
             /\ events' = Append(events, <<"finalize", b, outcome>>)
        /\ batch' = [batch EXCEPT ![b].pc = "done",
                                  ![b].failed_count = a.failed_tests,
                                  ![b].avg_latency_ms = a.avg_latency_ms,
                                  ![b].returned = batch[b].results]
  /\ UNCHANGED disk

Next ==
  \E b \in Batches :
    \/ InitStorage(b)
    \/ StartCase(b)
    \/ \E message \in Messages(batch[b].kind) : Receive(b, message)
    \/ StreamEnd(b)
    \/ \E thrown \in AgentFailures : StreamRaise(b, thrown)
    \/ StoreResult(b)
    \/ Finalize(b)

Spec == Init /\ [][Next]_vars

\* a batch of at most MaxCasesInterp cases is entered
InitInterp ==
  /\ \E kind \in {"activation", "quality"} :
       \E test_cases \in SeqsUpTo(CatalogOf(kind), MaxCasesInterp) :
         batch = [b \in Batches |->
                    IF b = "A" THEN NewBatch(kind, test_cases) ELSE NotInvoked]
  /\ db = EmptyDb
  /\ disk \in [TrackedSkills -> {"content-1"}]
  /\ faults = 0
  /\ events = <<>>

NextInterp ==
  \E b \in Batches :
    \/ InitStorage(b)
    \/ StartCase(b)
    \/ \E message \in MessagesInterp(batch[b].kind) : Receive(b, message)
    \/ StreamEnd(b)
    \/ \E thrown \in AgentFailures : StreamRaise(b, thrown)
    \/ StoreResult(b)
    \/ Finalize(b)

\* the batch runners on streams that hold messages of any shape
SpecInterp == InitInterp /\ [][NextInterp]_vars

\* cases that activation_test_schema / quality_test_schema do not accept: the
\* skill is none of the four literals of the union
InvalidActivationCase == ActivationCase("act-bad", "svelte4-stores", TRUE, UNDEFINED)
InvalidQualityCase ==
  [QualityCase("qual-bad", FALSE, <<>>, FALSE, <<>>, UNDEFINED)
     EXCEPT !.skill = "svelte4-stores"]

\* what a caller may submit: the cases of the catalog and the invalid one
Submittable(kind) ==
  CatalogOf(kind)
    \cup (IF kind = "activation" THEN {InvalidActivationCase}
                                 ELSE {InvalidQualityCase})

\* v.array(activation_test_schema) / v.array(quality_test_schema) on the argument
IsValidInput(kind, test_cases) ==
  \A k \in DOMAIN test_cases :
    IF kind = "activation" THEN test_cases[k].expected_skill \in SkillNames
                           ELSE test_cases[k].skill \in SkillNames

\* a caller submits any list of submittable cases
InitValidate ==
  /\ \E kind \in {"activation", "quality"} :
       \E test_cases \in SeqsUpTo(Submittable(kind), MaxCases) :
         batch = [b \in Batches |->
                    IF b = "A" THEN NewBatch(kind, test_cases) ELSE NotInvoked]
  /\ db = EmptyDb
  /\ disk \in [TrackedSkills -> {"content-1"}]
  /\ faults = 0
  /\ events = <<>>

\* command(schema, handler): the argument fails the schema, the handler is not
\* entered and the caller gets the validation error
Reject(b) ==
  /\ batch[b].pc = "init"
  /\ ~IsValidInput(batch[b].kind, batch[b].test_cases)
  /\ batch' = [batch EXCEPT ![b].pc = "rejected"]
  /\ events' = Append(events, <<"rejected", b>>)
  /\ UNCHANGED <<db, disk, faults>>

\* a command declared without schema: the handler is entered with any argument
Accept_Unchecked(b) == InitStorage(b)

\* command(schema, handler): the argument passes the schema, the handler is entered
Accept(b) ==
  /\ IsValidInput(batch[b].kind, batch[b].test_cases)
  /\ InitStorage(b)

NextValidate ==
  \E b \in Batches :
    \/ Reject(b)
    \/ Accept(b)
    \/ StartCase(b)
    \/ \E message \in Messages(batch[b].kind) : Receive(b, message)
    \/ StreamEnd(b)
    \/ \E thrown \in AgentFailures : StreamRaise(b, thrown)
    \/ StoreResult(b)
    \/ Finalize(b)

\* the batch commands as the caller sees them, schema validation included
SpecValidate == InitValidate /\ [][NextValidate]_vars

\* the rest of the loop body, with the store command throwing at any of its
\* statements: any number of them completes before the one that throws
StoreResultAnyPrefix(b) ==
  /\ batch[b].pc = "store"
  /\ LET result == batch[b].results[batch[b].i]
         statements == StoreStatements(b, result)
     IN /\ IF batch[b].run_id # NO_RUN
             THEN \E done \in 0..Len(statements) :
                    /\ done < Len(statements) => faults < MaxFaults
                    /\ faults' = IF done < Len(statements) THEN faults + 1 ELSE faults
                    /\ db' = RunStatements(db, statements, done)
                    /\ events' = Append(events,
                         <<"store", b, batch[b].i,
                           IF done = Len(statements) THEN "stored" ELSE "failed",
                           IF done > 0 THEN statements[1].row.id ELSE 0>>)
             ELSE /\ db' = db
                  /\ faults' = faults
                  /\ events' = Append(events, <<"store", b, batch[b].i, "skipped", 0>>)
        /\ batch' = [batch EXCEPT ![b] =
                       [Aggregate(batch[b], result) EXCEPT !.i = @ + 1,
                                                           !.pc = "loop",
                                                           !.inputs = <<>>]]
  /\ UNCHANGED disk

NextStore ==
  \E b \in Batches :
    \/ InitStorage(b)
    \/ StartCase(b)
    \/ \E message \in Messages(batch[b].kind) : Receive(b, message)
    \/ StreamEnd(b)
    \/ \E thrown \in AgentFailures : StreamRaise(b, thrown)
    \/ StoreResultAnyPrefix(b)
    \/ Finalize(b)

\* the batch runners with a store command that may throw at any statement
SpecStore == InitInterp /\ [][NextStore]_vars

\* the files of a skill are edited on disk, at any moment of a batch
FilesChange(skill) ==
  /\ disk[skill] = "content-1"
  /\ disk' = [disk EXCEPT ![skill] = "content-2"]
  /\ UNCHANGED <<batch, db, faults, events>>

NextDisk ==
  \/ Next
  \/ \E skill \in TrackedSkills : FilesChange(skill)

\* the batch runners with the skill files changing under them
SpecDisk == Init /\ [][NextDisk]_vars

\* two batch commands are to be invoked, each with at most MaxCasesTwo cases;
\* they share the database and the skill files
InitTwo ==
  /\ \E kindA, kindB \in {"activation", "quality"} :
       \E casesA \in SeqsUpTo(CatalogOf(kindA), MaxCasesTwo) :
         \E casesB \in SeqsUpTo(CatalogOf(kindB), MaxCasesTwo) :
           batch = [b \in Batches |->
                      IF b = "A" THEN NewBatch(kindA, casesA)
                      ELSE [NewBatch(kindB, casesB) EXCEPT !.pc = "queued"]]
  /\ db = EmptyDb
  /\ disk \in [TrackedSkills -> {"content-1"}]
  /\ faults = 0
  /\ events = <<>>

\* the messages an agent call may yield when two batches are followed
MessagesTwo(kind) ==
  IF kind = "activation" THEN {M_skill_runes} ELSE {M_text_OnClick}

\* the batches are run one after the other: the second command is invoked when
\* the first has returned
Enter(b) ==
  /\ batch[b].pc = "queued"
  /\ batch["A"].pc = "done"
  /\ batch' = [batch EXCEPT ![b].pc = "init"]
  /\ UNCHANGED <<db, disk, faults, events>>

NextTwo ==
  \/ \E b \in Batches :
       \/ Enter(b)
       \/ InitStorage(b)
       \/ StartCase(b)
       \/ \E message \in MessagesTwo(batch[b].kind) : Receive(b, message)
       \/ StreamEnd(b)
       \/ StreamRaise(b, Thrown(TRUE, "agent process exited"))
       \/ StoreResult(b)
       \/ Finalize(b)
  \/ \E skill \in TrackedSkills : FilesChange(skill)

\* a sequence of two batches, with the skill files changing at any moment
SpecTwo == InitTwo /\ [][NextTwo]_vars

\* the test cases submitted when two batches are in flight
PairCatalog(kind) ==
  {test_case \in CatalogOf(kind) : test_case.id \in {"act-001", "qual-004"}}

\* two batch commands invoked together, each with its own test cases
InitPair ==
  /\ \E kindA, kindB \in {"activation", "quality"} :
       \E casesA \in [1..MaxCasesPair -> PairCatalog(kindA)] :
         \E casesB \in [1..MaxCasesPair -> PairCatalog(kindB)] :
           batch = [b \in Batches |->
                      IF b = "A" THEN NewBatch(kindA, casesA)
                                 ELSE NewBatch(kindB, casesB)]
  /\ db = EmptyDb
  /\ disk \in [TrackedSkills -> {"content-1"}]
  /\ faults = 0
  /\ events = <<>>

\* either command takes its next step: the commands are async functions on one
\* event loop, so a step of the one may come between any two awaits of the other
NextPair ==
  \E b \in Batches :
    \/ InitStorage(b)
    \/ StartCase(b)
    \/ \E message \in MessagesTwo(batch[b].kind) : Receive(b, message)
    \/ StreamEnd(b)
    \/ StreamRaise(b, Thrown(TRUE, "agent process exited"))
    \/ StoreResult(b)
    \/ Finalize(b)

\* two batches in flight at once
SpecPair == InitPair /\ [][NextPair]_vars

\* ===================================================================== claims
Range(s) == {s[k] : k \in DOMAIN s}

Happened(e) == \E k \in DOMAIN events : events[k] = e

\* the agent call or the message stream of case k of batch b raised
Raised(b, k) == Happened(<<"result", b, k, "raised">>)

\* update_test_run succeeded for batch b
Finalized(b) == Happened(<<"finalize", b, "updated">>)

\* the store command of case k of batch b completed, writing result row `id`
Stored(b, k, id) == Happened(<<"store", b, k, "stored", id>>)

RunRow(b) == db.test_runs[batch[b].run_id]

\* the skills named by Skill invocations among the stream events `stream`
InvokedSkills(stream) ==
  {stream[k][2].content[j].skill :
     <<k, j>> \in {<<k, j>> \in (DOMAIN stream) \X (1..3) :
                     /\ stream[k][1] = "message"
                     /\ j \in DOMAIN stream[k][2].content
                     /\ stream[k][2].content[j].type = "tool_use"
                     /\ stream[k][2].content[j].name = "Skill"
                     /\ stream[k][2].content[j].input = "object_with_skill"}}

\* C1: partial-failure isolation. A finished batch of N cases returns N
\* results, the i-th carrying the i-th case's test_id; every case whose agent
\* call or stream raised has passed = false and a non-empty error text; every
\* other case has the result it gets when run alone on the same stream.
C1_PartialFailureIsolation ==
  \A b \in Batches : batch[b].pc = "done" =>
    /\ Len(batch[b].returned) = Len(batch[b].test_cases)
    /\ \A k \in DOMAIN batch[b].returned :
         LET r == batch[b].returned[k]
         IN /\ r.test_id = batch[b].test_cases[k].id
            /\ Raised(b, k) => ~r.passed /\ r.error # UNDEFINED /\ r.error # ""
            /\ ~Raised(b, k) => r = batch[b].alone[k]

QualityResults ==
  UNION {Range(batch[b].results) : b \in {x \in Batches : batch[x].kind = "quality"}}

\* C3: a quality result without error has passed exactly when missing_facts and
\* forbidden_content are both empty; a quality result of the error path has
\* passed = false whatever the response text held.
C3_QualityPassedIff ==
  \A r \in QualityResults :
    /\ r.error = UNDEFINED =>
         (r.passed <=> (Len(r.missing_facts) = 0 /\ Len(r.forbidden_content) = 0))
    /\ r.error # UNDEFINED => ~r.passed

\* C3 witness: the stream delivered a text that satisfies every expectation of
\* the case and then raised; the result is an error result that did not pass.
C3_Witness ==
  \E b \in Batches :
    /\ batch[b].kind = "quality" /\ batch[b].pc = "store"
    /\ batch[b].inputs = <<<<"message", M_text_OnClick>>,
                           <<"raised", Thrown(TRUE, "agent process exited")>>>>
    /\ CurrentCase(b).id = "qual-004"
    /\ batch[b].results[batch[b].i].error = "agent process exited"
    /\ ~batch[b].results[batch[b].i].passed

\* the child rows of quality result row `id`
ChildrenOf(id) ==
  {k \in DOMAIN db.missing_facts : db.missing_facts[k].result_id = id}
    \cup {-k : k \in {j \in DOMAIN db.forbidden_content :
                        db.forbidden_content[j].result_id = id}}

\* C4 as stated: every quality result with no missing fact and no forbidden
\* content has passed = true, as returned and as persisted.
C4_Original ==
  /\ \A r \in QualityResults :
       (Len(r.missing_facts) = 0 /\ Len(r.forbidden_content) = 0) => r.passed
  /\ \A id \in DOMAIN db.quality_results :
       ChildrenOf(id) = {} => db.quality_results[id].passed = 1

\* the store command of case k of batch b wrote result row `id`, whether or not
\* it went on to complete
RowWritten(b, k, id) ==
  \/ Happened(<<"store", b, k, "stored", id>>)
  \/ Happened(<<"store", b, k, "failed", id>>) /\ id # 0

\* C4 as amended: every quality result that carries no error and has no missing
\* fact and no forbidden content has passed = true, and the row written for it
\* has passed = 1 and no child rows.
C4_Amended ==
  /\ \A r \in QualityResults :
       (r.error = UNDEFINED /\ Len(r.missing_facts) = 0
        /\ Len(r.forbidden_content) = 0) => r.passed
  /\ \A b \in Batches : batch[b].kind = "quality" =>
       \A k \in DOMAIN batch[b].results : \A id \in DOMAIN db.quality_results :
         (RowWritten(b, k, id) /\ batch[b].results[k].error = UNDEFINED
          /\ Len(batch[b].results[k].missing_facts) = 0
          /\ Len(batch[b].results[k].forbidden_content) = 0)
           => db.quality_results[id].passed = 1 /\ ChildrenOf(id) = {}

\* C4 witness: a stored quality row without child rows that passed
C4_Witness ==
  \E b \in Batches : \E k \in DOMAIN batch[b].results :
    \E id \in DOMAIN db.quality_results :
      /\ batch[b].kind = "quality"
      /\ Stored(b, k, id)
      /\ batch[b].results[k].error = UNDEFINED
      /\ batch[b].test_cases[k].has_expected_facts
      /\ ChildrenOf(id) = {}
      /\ db.quality_results[id].passed = 1

\* two characters that differ at most in case
SameLetter(c1, c2) ==
  \/ c1 = c2
  \/ {c1, c2} = {"o", "O"}
  \/ {c1, c2} = {"c", "C"}

\* t occurs in s, letter case ignored
ContainsIgnoringCase(s, t) ==
  \E k \in 0..(Len(s) - Len(t)) :
    \A j \in 1..Len(t) : SameLetter(s[k + j], t[j])

ExpectedFacts(test_case) ==
  IF test_case.has_expected_facts THEN test_case.expected_facts ELSE <<>>

MustNotContain(test_case) ==
  IF test_case.has_must_not_contain THEN test_case.must_not_contain ELSE <<>>

\* C5: quality matching is case-insensitive containment. In every scored
\* quality result an expected fact is reported missing exactly when the
\* response does not contain it, case ignored, and a forbidden string is
\* reported exactly when the response contains it, case ignored.
C5_CaseInsensitiveMatching ==
  \A b \in Batches : batch[b].kind = "quality" =>
    \A k \in DOMAIN batch[b].results :
      LET r == batch[b].results[k]
          test_case == batch[b].test_cases[k]
      IN r.error = UNDEFINED =>
           /\ \A f \in Range(ExpectedFacts(test_case)) :
                f \in Range(r.missing_facts)
                  <=> ~ContainsIgnoringCase(r.response_full_text, f)
           /\ \A f \in Range(MustNotContain(test_case)) :
                f \in Range(r.forbidden_content)
                  <=> ContainsIgnoringCase(r.response_full_text, f)

\* C5 witness: the response "OnClick" satisfies the expected fact "onclick"
C5_Witness ==
  \E b \in Batches : \E k \in DOMAIN batch[b].results :
    /\ batch[b].kind = "quality"
    /\ batch[b].test_cases[k].expected_facts = <<T_onclick>>
    /\ batch[b].results[k].error = UNDEFINED
    /\ batch[b].results[k].response_full_text = T_OnClick
    /\ batch[b].results[k].missing_facts = <<>>

\* s is t with some entries left out, the others in their order
RECURSIVE IsSubsequence(_, _)
IsSubsequence(s, t) ==
  IF s = <<>> THEN TRUE
  ELSE IF t = <<>> THEN FALSE
  ELSE IF Head(s) = Head(t) /\ IsSubsequence(Tail(s), Tail(t)) THEN TRUE
  ELSE IsSubsequence(s, Tail(t))

\* C6: missing_facts is an order-preserving subsequence of expected_facts and
\* forbidden_content one of must_not_contain.
C6_OrderPreserved ==
  \A b \in Batches : batch[b].kind = "quality" =>
    \A k \in DOMAIN batch[b].results :
      /\ IsSubsequence(batch[b].results[k].missing_facts,
                       ExpectedFacts(batch[b].test_cases[k]))
      /\ IsSubsequence(batch[b].results[k].forbidden_content,
                       MustNotContain(batch[b].test_cases[k]))

\* C6 witness: two facts are missing and two forbidden strings found, each pair
\* reported in the order of its input list
C6_Witness ==
  \E b \in Batches : \E k \in DOMAIN batch[b].results :
    /\ batch[b].kind = "quality"
    /\ \/ batch[b].results[k].missing_facts = <<T_onclick, T_colon>>
       \/ batch[b].results[k].forbidden_content = <<T_colon, T_onclick>>

\* C7: once update_test_run succeeded, the run record has
\* failed_tests = total_tests - passed_tests, with total_tests the number of
\* submitted cases.
C7_FailedIsTotalMinusPassed ==
  \A b \in Batches : Finalized(b) =>
    /\ RunRow(b).total_tests = Len(batch[b].test_cases)
    /\ RunRow(b).failed_tests = RunRow(b).total_tests - RunRow(b).passed_tests
    /\ RunRow(b).passed_tests + RunRow(b).failed_tests = RunRow(b).total_tests

\* C7 witness: a finalized run with a passed and an errored case
C7_Witness ==
  \E b \in Batches :
    /\ Finalized(b)
    /\ \E k \in DOMAIN batch[b].returned : batch[b].returned[k].passed
    /\ \E k \in DOMAIN batch[b].returned : batch[b].returned[k].error # UNDEFINED

\* the sum of f over the results
RECURSIVE SumSeq(_)
SumSeq(numbers) ==
  IF numbers = <<>> THEN 0 ELSE Head(numbers) + SumSeq(Tail(numbers))

SumOver(results, f(_)) == SumSeq([k \in DOMAIN results |-> f(results[k])])

LatencyOf(r) == IF r.metrics.has THEN r.metrics.latency_ms ELSE 0
InputOf(r) == IF r.metrics.has THEN r.metrics.input_tokens ELSE 0
OutputOf(r) == IF r.metrics.has THEN r.metrics.output_tokens ELSE 0
CacheReadOf(r) == IF r.metrics.has THEN r.metrics.cache_read_tokens ELSE 0
CostOf(r) == IF r.metrics.has THEN r.metrics.estimated_cost_usd ELSE 0
PassedOf(r) == IF r.passed THEN 1 ELSE 0

\* the quotient q = <<numerator, denominator>> is the number x / n
IsQuotient(q, x, n) == q[2] # 0 /\ q[1] * n = x * q[2]

\* C8: at finalization avg_latency_ms is total_latency_ms divided by the number
\* of submitted cases, and 0, with no division, for an empty batch.
C8_AvgLatency ==
  \A b \in Batches : batch[b].pc = "done" =>
    LET n == Len(batch[b].test_cases)
        avg == batch[b].avg_latency_ms
    IN /\ n > 0 => IsQuotient(avg, batch[b].total_latency_ms, n)
       /\ n = 0 => avg = <<0, 1>>
       /\ Finalized(b) =>
            /\ RunRow(b).avg_latency_ms = avg
            /\ RunRow(b).total_latency_ms = batch[b].total_latency_ms

\* C8 witness: a finalized run of two cases with 40 ms in total, 20 on average
C8_Witness ==
  \E b \in Batches :
    /\ Finalized(b)
    /\ Len(batch[b].test_cases) = 2
    /\ RunRow(b).total_latency_ms = 40
    /\ IsQuotient(RunRow(b).avg_latency_ms, 20, 1)

\* C9: at finalization passed_tests is the number of returned results that
\* passed, and each usage aggregate is the sum of that metric over all returned
\* results (a result without metrics adds nothing).
C9_AggregatesAreSums ==
  \A b \in Batches : batch[b].pc = "done" =>
    LET rs == batch[b].returned
        a == FinalAggregates(batch[b])
    IN /\ a.passed_tests = SumOver(rs, PassedOf)
       /\ a.total_input_tokens = SumOver(rs, InputOf)
       /\ a.total_output_tokens = SumOver(rs, OutputOf)
       /\ a.total_cache_read_tokens = SumOver(rs, CacheReadOf)
       /\ a.total_latency_ms = SumOver(rs, LatencyOf)
       /\ a.total_cost_usd = SumOver(rs, CostOf)
       /\ Finalized(b) =>
            /\ RunRow(b).passed_tests = SumOver(rs, PassedOf)
            /\ RunRow(b).total_input_tokens = SumOver(rs, InputOf)
            /\ RunRow(b).total_output_tokens = SumOver(rs, OutputOf)
            /\ RunRow(b).total_cache_read_tokens = SumOver(rs, CacheReadOf)
            /\ RunRow(b).total_latency_ms = SumOver(rs, LatencyOf)
            /\ RunRow(b).total_cost_usd = SumOver(rs, CostOf)

\* C9 witness: a finalized run with a failed case that has metrics and an
\* errored case
C9_Witness ==
  \E b \in Batches :
    /\ Finalized(b)
    /\ \E k \in DOMAIN batch[b].returned :
         /\ ~batch[b].returned[k].passed
         /\ batch[b].returned[k].metrics.has
         /\ batch[b].returned[k].metrics.input_tokens > 0
    /\ \E k \in DOMAIN batch[b].returned : batch[b].returned[k].error # UNDEFINED
    /\ RunRow(b).total_input_tokens > 0

\* the position of the first event e in the history (0: it never happened)
PositionOf(e) ==
  IF Happened(e) THEN CHOOSE k \in DOMAIN events :
                        events[k] = e /\ \A j \in 1..(k - 1) : events[j] # e
  ELSE 0

StoreAttempted(b, k, before) ==
  \E q \in 1..(before - 1) :
    /\ events[q][1] = "store" /\ events[q][2] = b /\ events[q][3] = k

Returned(b, k, before) ==
  \E q \in 1..(before - 1) :
    /\ events[q][1] = "result" /\ events[q][2] = b /\ events[q][3] = k

\* C10: cases are processed one at a time in input order. When the agent call
\* of case i+1 starts, case i has returned its result and its persistence
\* attempt is over; each case is called once, after the cases before it; while
\* a call is running no later case has been started.
C10_StrictlySequential ==
  \A b \in Batches :
    /\ \A p \in DOMAIN events :
         (events[p][1] = "call" /\ events[p][2] = b) =>
           LET k == events[p][3]
           IN /\ k > 1 => /\ Returned(b, k - 1, p)
                          /\ StoreAttempted(b, k - 1, p)
                          /\ PositionOf(<<"call", b, k - 1>>) \in 1..(p - 1)
              /\ PositionOf(<<"call", b, k>>) = p
    /\ batch[b].pc = "stream" =>
         /\ Len(batch[b].results) = batch[b].i - 1
         /\ ~\E k \in (batch[b].i + 1)..MaxCases + 1 : Happened(<<"call", b, k>>)

\* C10 witness: the call of the second case has started
C10_Witness ==
  \E b \in Batches :
    /\ Happened(<<"call", b, 2>>)
    /\ batch[b].pc = "stream"

\* the table that holds the result rows of batch b
ResultTable(b) ==
  IF batch[b].kind = "activation" THEN db.activation_results
                                  ELSE db.quality_results

\* where the row with identifier `id` stands in the table, in insertion order
RowPosition(table, id) == CHOOSE p \in DOMAIN table : table[p].id = id

\* C11: result rows are inserted in submission order. If the rows of cases
\* k1 < k2 of a batch were both written, the row of k1 was inserted before the
\* row of k2 (it stands before it in the table and its store attempt comes
\* first in the history), and each row belongs to the case of its position.
C11_PersistedInOrder ==
  \A b \in Batches : \A k1, k2 \in DOMAIN batch[b].results :
    \A id1, id2 \in DOMAIN ResultTable(b) :
      (k1 < k2 /\ RowWritten(b, k1, id1) /\ RowWritten(b, k2, id2)) =>
        /\ RowPosition(ResultTable(b), id1) < RowPosition(ResultTable(b), id2)
        /\ ResultTable(b)[id1].test_id = batch[b].test_cases[k1].id
        /\ ResultTable(b)[id2].test_id = batch[b].test_cases[k2].id
        /\ \E p1, p2 \in DOMAIN events :
             /\ p1 < p2
             /\ events[p1][1] = "store" /\ events[p1][2] = b /\ events[p1][3] = k1
             /\ events[p2][1] = "store" /\ events[p2][2] = b /\ events[p2][3] = k2

\* C11 witness: two different cases of one batch both have their row written
C11_Witness ==
  \E b \in Batches : \E id1, id2 \in DOMAIN ResultTable(b) :
    /\ Len(batch[b].test_cases) = 2
    /\ batch[b].test_cases[1].id # batch[b].test_cases[2].id
    /\ RowWritten(b, 1, id1) /\ RowWritten(b, 2, id2)

\* the agent calls of case k of batch b in the history
CallsOf(b, k) == {p \in DOMAIN events : events[p] = <<"call", b, k>>}

\* C12: in a finished batch the agent was called exactly once for each submitted
\* case, whether the call succeeded or raised, and for nothing else.
C12_EachCaseCalledOnce ==
  \A b \in Batches :
    /\ \A p \in DOMAIN events :
         (events[p][1] = "call" /\ events[p][2] = b) =>
           /\ events[p][3] \in 1..Len(batch[b].test_cases)
           /\ Cardinality(CallsOf(b, events[p][3])) = 1
    /\ batch[b].pc = "done" =>
         \A k \in 1..Len(batch[b].test_cases) : Cardinality(CallsOf(b, k)) = 1

\* C12 witness: a finished batch of two cases whose first call raised
C12_Witness ==
  \E b \in Batches :
    /\ batch[b].pc = "done"
    /\ Len(batch[b].test_cases) = 2
    /\ Raised(b, 1)
    /\ Cardinality(CallsOf(b, 1)) = 1 /\ Cardinality(CallsOf(b, 2)) = 1

\* the initialisation of batch b failed in store_skill_versions or in
\* create_test_run
Degraded(b) ==
  \/ Happened(<<"init", b, "store_skill_versions">>)
  \/ Happened(<<"init", b, "create_test_run">>)

\* no other batch than b has been invoked
RunsAlone(b) == \A o \in Batches \ {b} : batch[o].pc = "idle"

\* C13: degraded mode. When store_skill_versions or create_test_run failed, no
\* run identifier is bound; every case is still called and returned; every
\* store attempt and the finalization update are skipped, so no result row,
\* child row or log row is written and no run record is updated.
C13_DegradedMode ==
  \A b \in Batches : Degraded(b) =>
    /\ batch[b].run_id = NO_RUN
    /\ \A p \in DOMAIN events :
         /\ (events[p][1] = "store" /\ events[p][2] = b) => events[p][4] = "skipped"
         /\ (events[p][1] = "finalize" /\ events[p][2] = b) => events[p][3] = "skipped"
    /\ RunsAlone(b) =>
         /\ db.activation_results = <<>> /\ db.quality_results = <<>>
         /\ db.missing_facts = <<>> /\ db.forbidden_content = <<>>
         /\ db.test_logs = <<>>
         /\ \A k \in DOMAIN db.test_runs : db.test_runs[k].updates = 0
    /\ batch[b].pc = "done" =>
         /\ Len(batch[b].returned) = Len(batch[b].test_cases)
         /\ \A k \in DOMAIN batch[b].returned :
              /\ Happened(<<"call", b, k>>)
              /\ batch[b].returned[k] = batch[b].alone[k]

\* C13 witness: a batch of two cases finished in degraded mode after
\* create_test_run failed, one of its results having passed
C13_Witness ==
  \E b \in Batches :
    /\ Happened(<<"init", b, "create_test_run">>)
    /\ batch[b].pc = "done"
    /\ Len(batch[b].returned) = 2
    /\ \E k \in DOMAIN batch[b].returned : batch[b].returned[k].passed
    /\ Happened(<<"finalize", b, "skipped">>)

\* the persistence attempts of batch b in the history: the outcome of the
\* initialisation, of each store and of the final update
PersistenceOutcomes(b) ==
  {events[p] : p \in {q \in DOMAIN events :
                        /\ events[q][1] \in {"init", "store", "finalize"}
                        /\ events[q][2] = b}}

\* some persistence operation of batch b failed
PersistenceFailed(b) ==
  \E e \in PersistenceOutcomes(b) :
    \/ e[1] = "init" /\ e[3] # "none"
    \/ e[1] = "store" /\ e[4] = "failed"
    \/ e[1] = "finalize" /\ e[3] = "failed"

\* C14: the value a batch returns does not depend on persistence. Whatever the
\* outcomes of the initialisation, the stores and the final update were, the
\* returned list is the list of what each case's test function returns on the
\* stream and clock reading that case saw, so that two executions that see the
\* same streams and readings return the same list.
C14_ReturnIgnoresPersistence ==
  \A b \in Batches :
    /\ batch[b].pc = "done" =>
         /\ DOMAIN batch[b].returned = DOMAIN batch[b].test_cases
         /\ batch[b].returned = batch[b].alone
    /\ \A k \in DOMAIN batch[b].results :
         (batch[b].pc # "store" \/ k < batch[b].i) =>
           batch[b].results[k] = batch[b].alone[k]

\* C14 witness: finished batches of two passing cases in which the
\* initialisation, a store and the final update failed
C14_WitnessInit ==
  \E b \in Batches :
    /\ batch[b].pc = "done" /\ Len(batch[b].returned) = 2
    /\ \A k \in DOMAIN batch[b].returned : batch[b].returned[k].passed
    /\ Happened(<<"init", b, "create_test_run">>)

C14_WitnessStore ==
  \E b \in Batches : \E id \in {0, 1} :
    /\ batch[b].pc = "done" /\ Len(batch[b].returned) = 2
    /\ \A k \in DOMAIN batch[b].returned : batch[b].returned[k].passed
    /\ Happened(<<"store", b, 1, "failed", id>>)

C14_Witness ==
  \E b \in Batches :
    /\ batch[b].pc = "done" /\ Len(batch[b].returned) = 2
    /\ \A k \in DOMAIN batch[b].returned : batch[b].returned[k].passed
    /\ Happened(<<"finalize", b, "failed">>)
    /\ PersistenceFailed(b)

\* the store command of case k of batch b threw
StoreFailed(b, k) ==
  \E id \in 0..Len(ResultTable(b)) : Happened(<<"store", b, k, "failed", id>>)

\* C15: a failed persistence write of case k does not abort the batch. The run
\* identifier stays bound; the result of k stays in the list; every later case
\* that has a store attempt had it made under the same run identifier, not
\* skipped; and in the finished batch every case was called, the list is
\* complete and the aggregates count case k as well.
C15_StoreFailureIsLocal ==
  \A b \in Batches : \A k \in DOMAIN batch[b].results : StoreFailed(b, k) =>
    /\ batch[b].run_id # NO_RUN
    /\ batch[b].results[k] = batch[b].alone[k]
    /\ \A p \in DOMAIN events :
         (events[p][1] = "store" /\ events[p][2] = b /\ events[p][3] > k) =>
           /\ events[p][4] \in {"stored", "failed"}
           /\ events[p][4] = "stored" =>
                ResultTable(b)[events[p][5]].run_id = batch[b].run_id
    /\ batch[b].pc = "done" =>
         /\ Len(batch[b].returned) = Len(batch[b].test_cases)
         /\ batch[b].returned[k] = batch[b].alone[k]
         /\ \A j \in 1..Len(batch[b].test_cases) :
              /\ Happened(<<"call", b, j>>)
              /\ \E p \in DOMAIN events :
                   events[p][1] = "store" /\ events[p][2] = b /\ events[p][3] = j
         /\ batch[b].passed_count = SumOver(batch[b].returned, PassedOf)
         /\ batch[b].total_input_tokens = SumOver(batch[b].returned, InputOf)
         /\ batch[b].total_latency_ms = SumOver(batch[b].returned, LatencyOf)
         /\ batch[b].total_cost_usd = SumOver(batch[b].returned, CostOf)
         /\ Finalized(b) =>
              /\ RunRow(b).passed_tests = SumOver(batch[b].returned, PassedOf)
              /\ RunRow(b).total_input_tokens = SumOver(batch[b].returned, InputOf)

\* C15 witness: the store of the first case failed, the case passed and used
\* tokens; the second case was stored under the run and the run was finalized
\* counting both
C15_Witness ==
  \E b \in Batches : \E id \in DOMAIN ResultTable(b) :
    /\ StoreFailed(b, 1)
    /\ batch[b].pc = "done"
    /\ batch[b].returned[1].passed
    /\ InputOf(batch[b].returned[1]) > 0
    /\ Stored(b, 2, id)
    /\ ResultTable(b)[id].run_id = batch[b].run_id
    /\ Finalized(b)
    /\ RunRow(b).passed_tests >= 1
    /\ RunRow(b).total_input_tokens >= InputOf(batch[b].returned[1])

\* update_test_run of batch b threw
FinalizeFailed(b) == Happened(<<"finalize", b, "failed">>)

\* C16: a failing update_test_run is swallowed. The step in which it fails
\* leaves the whole database as it was - no row of the run is deleted or
\* changed - and the batch returns its full result list.
C16_FailedFinalizeKeepsRows ==
  [][\A b \in Batches :
       (~FinalizeFailed(b) /\ FinalizeFailed(b)') =>
         /\ db' = db
         /\ batch'[b].pc = "done"
         /\ batch'[b].returned = batch[b].results
         /\ Len(batch'[b].returned) = Len(batch[b].test_cases)]_vars

\* the same, seen in the states after the failure: the rows written for the
\* run are still in their table, under the run's identifier
C16_RowsRemain ==
  \A b \in Batches : FinalizeFailed(b) =>
    /\ batch[b].pc = "done"
    /\ Len(batch[b].returned) = Len(batch[b].test_cases)
    /\ \A k \in DOMAIN batch[b].returned : \A id \in 1..MaxCases + 1 :
         Stored(b, k, id) =>
           /\ id \in DOMAIN ResultTable(b)
           /\ ResultTable(b)[id].run_id = batch[b].run_id
           /\ ResultTable(b)[id].test_id = batch[b].returned[k].test_id
           /\ ResultTable(b)[id].passed = Bit(batch[b].returned[k].passed)

\* C16 witness: two cases were stored, then update_test_run failed; both rows
\* are in the table, the run record still has its initial counters and the
\* batch returned both results
C16_Witness ==
  \E b \in Batches :
    /\ FinalizeFailed(b)
    /\ Stored(b, 1, 1) /\ Stored(b, 2, 2)
    /\ Len(ResultTable(b)) = 2
    /\ Len(batch[b].returned) = 2
    /\ RunRow(b).updates = 0

\* the aggregates of a run record are all zero
ZeroAggregates(row) ==
  /\ row.passed_tests = 0 /\ row.failed_tests = 0
  /\ row.total_input_tokens = 0 /\ row.total_output_tokens = 0
  /\ row.total_cache_read_tokens = 0 /\ row.total_latency_ms = 0
  /\ row.total_cost_usd = 0 /\ row.avg_latency_ms = <<0, 1>>

\* the update_test_run calls of batch b in the history
UpdateCalls(b) ==
  {p \in DOMAIN events : /\ events[p][1] = "finalize" /\ events[p][2] = b
                         /\ events[p][3] \in {"updated", "failed"}}

\* C17 (states): the run record of a batch has zero aggregates and no update
\* from its creation until the batch has left the loop; update_test_run is
\* called at most once, never before the last case was processed, and exactly
\* once in a finished batch that has a run identifier.
C17_RunRecordLifecycle ==
  \A b \in Batches : batch[b].run_id # NO_RUN =>
    /\ batch[b].pc \in {"loop", "stream", "store"} =>
         /\ ZeroAggregates(RunRow(b))
         /\ RunRow(b).updates = 0
         /\ UpdateCalls(b) = {}
    /\ RunRow(b).total_tests = Len(batch[b].test_cases)
    /\ RunRow(b).updates <= 1
    /\ RunRow(b).updates = 1 <=> Finalized(b)
    /\ batch[b].pc = "done" =>
         /\ Cardinality(UpdateCalls(b)) = 1
         /\ Len(batch[b].results) = Len(batch[b].test_cases)
         /\ \A p \in UpdateCalls(b) : \A k \in 1..Len(batch[b].test_cases) :
              \E q \in 1..(p - 1) :
                events[q][1] = "store" /\ events[q][2] = b /\ events[q][3] = k

\* C17 (steps): a run record, once created, changes only in the step that
\* finalizes its batch.
C17_MutatedOnlyAtEnd ==
  [][\A k \in DOMAIN db.test_runs :
       db'.test_runs[k] # db.test_runs[k] =>
         \E b \in Batches :
           /\ batch[b].run_id = db.test_runs[k].id
           /\ batch[b].pc = "loop" /\ batch[b].i > Len(batch[b].test_cases)
           /\ batch'[b].pc = "done"
           /\ db.test_runs[k].updates = 0]_vars

\* C17 witness: a run of two cases was updated once, after both were processed,
\* to non-zero aggregates
C17_Witness ==
  \E b \in Batches :
    /\ batch[b].pc = "done" /\ Finalized(b)
    /\ Len(batch[b].test_cases) = 2
    /\ RunRow(b).updates = 1
    /\ RunRow(b).passed_tests = 1 /\ RunRow(b).failed_tests = 1
    /\ RunRow(b).total_input_tokens > 0

\* the version identifiers linked to run `run_id` in database d
LinkedIn(d, run_id) ==
  {l[2] : l \in {x \in d.test_run_skill_versions : x[1] = run_id}}

\* the identifiers of the version rows of d that fingerprint the files as
\* `files` has them
VersionsIn(d, files) ==
  {d.skill_versions[k].id :
     k \in {j \in DOMAIN d.skill_versions :
              \E skill \in TrackedSkills :
                /\ d.skill_versions[j].skill_name = skill
                /\ d.skill_versions[j].content_hash = ContentHash(files[skill])}}

LinkedVersions(run_id) == LinkedIn(db, run_id)
VersionsOf(files) == VersionsIn(db, files)

\* the initialisations of batch b in the history
InitsOf(b) == {p \in DOMAIN events : events[p][1] = "init" /\ events[p][2] = b}

\* C18: the skill versions are captured once per batch, before the first agent
\* call. The step that initialises the batch links the run to the versions of
\* the files as they are on disk in that step; no later step of the batch
\* captures again, changes the run's links or changes a version row, whatever
\* happens to the files meanwhile.
C18_SnapshotOnceBeforeCalls ==
  [][\A b \in Batches :
       /\ Cardinality(InitsOf(b)) <= 1
       /\ \A p \in DOMAIN events' :
            (events'[p][1] = "call" /\ events'[p][2] = b) =>
              \E q \in 1..(p - 1) : events'[q][1] = "init" /\ events'[q][2] = b
       /\ (batch[b].pc = "init" /\ batch'[b].pc = "loop"
           /\ events'[Len(events')] = <<"init", b, "none">>) =>
            /\ batch'[b].run_id # NO_RUN
            /\ LinkedIn(db', batch'[b].run_id) = VersionsIn(db', disk)
            /\ VersionsIn(db', disk) # {}
       /\ batch[b].pc \in {"loop", "stream", "store", "done"} =>
            /\ batch'[b].run_id = batch[b].run_id
            /\ LinkedIn(db', batch[b].run_id) = LinkedIn(db, batch[b].run_id)
            /\ db'.skill_versions = db.skill_versions]_vars

\* C18 witness: the files changed while the batch was running; the finished and
\* finalized run is linked to the version captured at its start and no version
\* of the changed files was recorded
C18_Witness ==
  \E b \in Batches :
    /\ batch[b].pc = "done" /\ Finalized(b)
    /\ Len(batch[b].returned) = 2
    /\ Happened(<<"init", b, "none">>)
    /\ disk["svelte5-runes"] = "content-2"
    /\ LinkedVersions(batch[b].run_id) = VersionsOf([s \in TrackedSkills |-> "content-1"])
    /\ LinkedVersions(batch[b].run_id) # {}
    /\ VersionsOf(disk) = {}

\* C19 as stated: the links of a run are written in the Finalized step, after
\* all cases have completed; until then the run has none.
C19_Original ==
  \A b \in Batches :
    (batch[b].run_id # NO_RUN /\ batch[b].pc \in {"loop", "stream", "store"}) =>
      LinkedVersions(batch[b].run_id) = {}

\* C19 as amended: the links of a run are written in the initialisation step,
\* right after the run record is created and before the first agent call; the
\* step that finalizes the batch, like every other later step, writes no link.
C19_Amended ==
  [][\A b \in Batches :
       /\ db'.test_run_skill_versions # db.test_run_skill_versions =>
            \E o \in Batches : batch[o].pc = "init" /\ batch'[o].pc = "loop"
       /\ (batch[b].pc = "loop" /\ batch'[b].pc = "done") =>
            db'.test_run_skill_versions = db.test_run_skill_versions
       /\ (batch[b].pc = "init" /\ batch'[b].pc = "loop"
           /\ events'[Len(events')] = <<"init", b, "none">>) =>
            /\ LinkedIn(db', batch'[b].run_id) # {}
            /\ LinkedIn(db, batch'[b].run_id) = {}
            /\ ~\E p \in DOMAIN events' :
                  events'[p][1] = "call" /\ events'[p][2] = b
       /\ (Happened(<<"init", b, "none">>) /\ batch[b].pc # "init") =>
            LinkedIn(db, batch[b].run_id) # {}]_vars

\* C19 witness: the first agent call is running and the run is already linked
\* to its skill versions
C19_Witness ==
  \E b \in Batches :
    /\ batch[b].pc = "stream" /\ batch[b].i = 1
    /\ batch[b].results = <<>>
    /\ batch[b].run_id # NO_RUN
    /\ LinkedVersions(batch[b].run_id) # {}

\* what the stream event e adds to the counter `field`: the counter of an
\* assistant message that carries usage, 0 when the counter is absent, 0 for
\* any other message or event
Contribution(e, field) ==
  IF /\ e[1] = "message"
     /\ e[2].type = "assistant" /\ e[2].has_body /\ e[2].has_usage
     /\ e[2].usage[field] # ABSENT
    THEN e[2].usage[field] ELSE 0

CounterSum(stream, field) ==
  SumSeq([k \in DOMAIN stream |-> Contribution(stream[k], field)])

\* C20: usage accumulation is additive. Each usage counter a call reports in its
\* metrics is the sum of that counter over the assistant messages the call
\* received, from zero; an absent counter adds 0 and a message of another type
\* adds nothing.
C20_UsageIsAdditive ==
  \A b \in Batches : batch[b].pc = "store" =>
    LET r == batch[b].results[batch[b].i]
        stream == batch[b].inputs
    IN r.metrics.has =>
         /\ r.metrics.input_tokens = CounterSum(stream, "input_tokens")
         /\ r.metrics.output_tokens = CounterSum(stream, "output_tokens")
         /\ r.metrics.cache_creation_tokens
              = CounterSum(stream, "cache_creation_input_tokens")
         /\ r.metrics.cache_read_tokens
              = CounterSum(stream, "cache_read_input_tokens")
         /\ r.metrics.thinking_tokens = CounterSum(stream, "thinking_tokens")

\* C20 witness: a quality call received two assistant messages with usage, each
\* lacking some counters, and a message that is not an assistant message could
\* have come between; the call reports the sums
C20_Witness ==
  \E b \in Batches :
    /\ batch[b].kind = "quality" /\ batch[b].pc = "store"
    /\ batch[b].inputs = <<<<"message", M_text_OnClick>>,
                           <<"message", M_text_on_click>>, <<"scored", 40>>>>
    /\ batch[b].results[batch[b].i].metrics.has
    /\ batch[b].results[batch[b].i].metrics.input_tokens = 1010
    /\ batch[b].results[batch[b].i].metrics.output_tokens = 520
    /\ batch[b].results[batch[b].i].metrics.cache_creation_tokens = 5
    /\ batch[b].results[batch[b].i].metrics.cache_read_tokens = 200
    /\ batch[b].results[batch[b].i].metrics.thinking_tokens = 3

\* a quality call whose stream mixed a non-assistant message with an assistant
\* message reports the assistant message's counters alone
C20_WitnessSystem ==
  \E b \in Batches :
    /\ batch[b].kind = "quality" /\ batch[b].pc = "store"
    /\ batch[b].inputs = <<<<"message", M_system>>,
                           <<"message", M_text_OnClick>>, <<"scored", 40>>>>
    /\ batch[b].results[batch[b].i].metrics.has
    /\ batch[b].results[batch[b].i].metrics.input_tokens = 1000

\* ------------------------------------------------------------- C21 .. C30
\* the messages among the stream events `stream`, in order
MessagesIn(stream) ==
  LET received == SelectSeq(stream, LAMBDA e : e[1] = "message")
  IN [k \in DOMAIN received |-> received[k][2]]

\* the message holds a Skill invocation whose arguments contain a skill field
IsActivating(message) ==
  /\ message.type = "assistant" /\ message.has_body /\ message.content_is_array
  /\ \E j \in DOMAIN message.content : IsSkillInvocation(message.content[j])

\* the skill field of the first such invocation of the message
FirstSkill(message) ==
  LET j == CHOOSE j \in DOMAIN message.content :
             /\ IsSkillInvocation(message.content[j])
             /\ \A h \in 1..(j - 1) : ~IsSkillInvocation(message.content[h])
  IN message.content[j].skill

\* the positions of the activating messages of a sequence of messages
ActivatingIn(msgs) == {k \in DOMAIN msgs : IsActivating(msgs[k])}

Min(S) == CHOOSE x \in S : \A y \in S : x <= y

\* C21: activation detection is first-match-wins and final. Once a message of
\* the call of an activation case holds a Skill invocation with a skill field,
\* that message is the last one examined, and activated_skill is the skill field
\* of its first such invocation, whatever the string, while the call runs and in
\* the result it returns normally.
C21_FirstMatchFinal ==
  \A b \in Batches :
    (batch[b].kind = "activation" /\ batch[b].pc \in {"stream", "store"}) =>
      LET msgs == MessagesIn(batch[b].inputs)
      IN ActivatingIn(msgs) # {} =>
           LET first == Min(ActivatingIn(msgs))
           IN /\ first = Len(msgs)
              /\ batch[b].pc = "stream" =>
                   batch[b].call.activated_skill = FirstSkill(msgs[first])
              /\ (batch[b].pc = "store"
                    /\ batch[b].results[batch[b].i].error = UNDEFINED) =>
                   batch[b].results[batch[b].i].activated_skill =
                     FirstSkill(msgs[first])

\* the call of the current case of batch b ended because the stream raised
RaisedAfterMessages(b) ==
  /\ batch[b].pc = "store"
  /\ batch[b].inputs # <<>>
  /\ batch[b].inputs[Len(batch[b].inputs)][1] = "raised"
  /\ MessagesIn(batch[b].inputs) # <<>>

\* C22: when the stream raises after having yielded messages, the result of the
\* case keeps what was collected before the error: the usage accumulated so far,
\* the detected skill (activation) and the accumulated response text (quality).
C22_PartialOutputPreserved ==
  \A b \in Batches : RaisedAfterMessages(b) =>
    LET r == batch[b].results[batch[b].i]
        st == batch[b].call
    IN /\ r.metrics.has
       /\ r.metrics.input_tokens = st.usage.input_tokens
       /\ r.metrics.output_tokens = st.usage.output_tokens
       /\ r.metrics.cache_read_tokens = st.usage.cache_read_tokens
       /\ batch[b].kind = "activation" => r.activated_skill = st.activated_skill
       /\ batch[b].kind = "quality" => r.response_full_text = st.response_text

\* the last stream event of the call of the current case of batch b
LastInput(b) == batch[b].inputs[Len(batch[b].inputs)]

\* every message the call of the current case has received is anomalous
OnlyAnomalies(b) ==
  \A k \in DOMAIN MessagesIn(batch[b].inputs) :
    MessagesIn(batch[b].inputs)[k] \in AnomalousMessages

\* C23: a message of unexpected shape contributes no activation and no response
\* text and is not propagated: the test function never ends on such a message
\* with an error result, and a call that received only such messages is scored
\* normally when its stream ends.
C23_AnomaliesNotPropagated ==
  \A b \in Batches :
    /\ (batch[b].pc = "store" /\ batch[b].inputs # <<>>
          /\ LastInput(b)[1] = "message") =>
         LastInput(b)[2] \notin AnomalousMessages
    /\ (batch[b].pc = "stream" /\ OnlyAnomalies(b)) =>
         /\ batch[b].call.activated_skill = NULL
         /\ batch[b].call.response_text = T_empty
    /\ (batch[b].pc = "store" /\ batch[b].inputs # <<>>
          /\ LastInput(b)[1] = "scored" /\ OnlyAnomalies(b)
          /\ ModelOf(CurrentCase(b)) \in KnownModels) =>
         batch[b].results[batch[b].i].error = UNDEFINED

\* the call of the current case of batch b left its message loop normally and
\* its cost computation failed on the model identifier
PricingMiss(b) ==
  /\ batch[b].pc = "store"
  /\ batch[b].inputs # <<>>
  /\ LastInput(b)[1] = "scored"
  /\ ModelOf(CurrentCase(b)) \notin KnownModels

\* the run-level token, latency and cost accumulators of a batch
Accumulators(bt) ==
  <<bt.total_input_tokens, bt.total_output_tokens, bt.total_cache_read_tokens,
    bt.total_latency_ms, bt.total_cost_usd>>

\* C24: pricing-table miss. When the cost computation fails for an unknown model
\* the case still yields a result, for its own test id, without metrics (so no
\* zero cost is reported) and with a non-empty error text, and the loop body
\* that follows leaves every run-level accumulator as it was.
C24_PricingMiss ==
  [][\A b \in Batches : PricingMiss(b) =>
       LET r == batch[b].results[batch[b].i]
       IN /\ Len(batch[b].results) = batch[b].i
          /\ r.test_id = CurrentCase(b).id
          /\ ~r.metrics.has
          /\ ~r.passed
          /\ r.error \notin {UNDEFINED, ""}
          /\ Accumulators(batch'[b]) = Accumulators(batch[b])
          /\ batch'[b].results = batch[b].results]_vars

\* a batch in which a priced case and a case with an unknown model have both
\* been aggregated
C24_Witness ==
  \E b \in Batches :
    /\ batch[b].i = 3
    /\ batch[b].total_input_tokens > 0
    /\ \E k \in DOMAIN batch[b].results :
         /\ batch[b].results[k].error = ErrorMsg(UnknownModelThrown)
         /\ ModelOf(batch[b].test_cases[k]) \notin KnownModels

\* C25: a submission that holds a case the schema does not accept is rejected
\* before any agent call: the agent is never called for the batch, nothing is
\* persisted for it and no result list is returned; the only outcome is the
\* rejection, which the caller receives.
C25_InvalidRejected ==
  \A b \in Batches :
    ~IsValidInput(batch[b].kind, batch[b].test_cases) =>
      /\ batch[b].pc \in {"init", "rejected"}
      /\ batch[b].results = <<>> /\ batch[b].returned = <<>>
      /\ \A p \in DOMAIN events :
           events[p][2] = b => events[p] = <<"rejected", b>>
      /\ batch[b].pc = "rejected" <=> Happened(<<"rejected", b>>)
      /\ db = EmptyDb

\* a rejected submission whose first case is valid and whose second is not
C25_Witness ==
  \E b \in Batches :
    /\ batch[b].pc = "rejected"
    /\ Len(batch[b].test_cases) = 2
    /\ IsValidInput(batch[b].kind, <<batch[b].test_cases[1]>>)
    /\ ~IsValidInput(batch[b].kind, <<batch[b].test_cases[2]>>)

\* C26: a run is executed against one model. While the test function of a case
\* of a batch with a run record runs (its agent call) and when it has returned
\* (its cost computation), the model it uses is the one on the run record.
C26_OneModelPerRun ==
  \A b \in Batches :
    (batch[b].run_id # NO_RUN /\ batch[b].pc \in {"stream", "store"}) =>
      ModelOf(CurrentCase(b)) = RunRow(b).model

\* create_test_run of batch b returned a run identifier
CreatedRun(b) ==
  \E p \in InitsOf(b) :
    events[p][3] \in {"none", "link_test_run_to_skill_versions"}

RunIds == {db.test_runs[k].id : k \in DOMAIN db.test_runs}

\* C27: referential integrity. Every activation_results and quality_results row
\* has the run_id of an existing test_runs row; a row written for a case of a
\* batch carries the identifier that the batch's own create_test_run returned,
\* which names a run record of the batch's kind and size and of no other batch.
C27_ReferentialIntegrity ==
  /\ \A k \in DOMAIN db.activation_results :
       db.activation_results[k].run_id \in RunIds
  /\ \A k \in DOMAIN db.quality_results :
       db.quality_results[k].run_id \in RunIds
  /\ \A b \in Batches : \A k \in DOMAIN batch[b].results :
       \A id \in DOMAIN ResultTable(b) :
         RowWritten(b, k, id) =>
           /\ CreatedRun(b)
           /\ batch[b].run_id # NO_RUN
           /\ ResultTable(b)[id].run_id = batch[b].run_id
           /\ RunRow(b).test_type = batch[b].kind
           /\ RunRow(b).total_tests = Len(batch[b].test_cases)
           /\ \A other \in Batches \ {b} : batch[other].run_id # batch[b].run_id

\* two batches of the same kind have each written a result row, under two runs
C27_Witness ==
  /\ batch["A"].kind = batch["B"].kind
  /\ \E idA, idB \in DOMAIN ResultTable("A") :
       /\ RowWritten("A", 1, idA) /\ RowWritten("B", 1, idB)
       /\ ResultTable("A")[idA].run_id # ResultTable("B")[idB].run_id

\* the results a batch holds whose usage is that of the scenario: 1000 input,
\* 500 output, 200 cache-read and no cache-creation tokens, on the rated model
ScenarioResults ==
  {r \in UNION {Range(batch[b].results) : b \in Batches} :
     /\ r.metrics.has
     /\ r.metrics.input_tokens = 1000 /\ r.metrics.output_tokens = 500
     /\ r.metrics.cache_read_tokens = 200
     /\ r.metrics.cache_creation_tokens = 0}

\* C28 as stated: the estimated cost of the scenario's usage is 0.01062 dollars
\* (10 620 000 nano-dollars).
C28_Original ==
  \A r \in ScenarioResults : r.metrics.estimated_cost_usd = 10620000

\* C28 as amended: the estimated cost of the scenario's usage is 0.01056 dollars
\* (10 560 000 nano-dollars): 1000 * 3000 + 500 * 15000 + 200 * 300.
C28_Amended ==
  \A r \in ScenarioResults : r.metrics.estimated_cost_usd = 10560000

\* a case has returned a result with the scenario's usage
C28_Witness == ScenarioResults # {}

\* database d holds a version row for every tracked skill as `files` has it
AllVersioned(d, files) ==
  \A skill \in TrackedSkills :
    \E k \in DOMAIN d.skill_versions :
      /\ d.skill_versions[k].skill_name = skill
      /\ d.skill_versions[k].content_hash = ContentHash(files[skill])

\* C29: skill-version deduplication. skill_versions never holds two rows with
\* the same skill name and content hash; a batch that is initialised while every
\* tracked skill already has a version row for its present content inserts no
\* version row, and when its initialisation succeeds its run is linked to
\* exactly those existing version identifiers.
C29_VersionsDeduplicated ==
  [][/\ \A j, k \in DOMAIN db'.skill_versions :
          (/\ db'.skill_versions[j].skill_name = db'.skill_versions[k].skill_name
           /\ db'.skill_versions[j].content_hash = db'.skill_versions[k].content_hash)
            => j = k
     /\ \A b \in Batches :
          (batch[b].pc = "init" /\ batch'[b].pc = "loop"
             /\ AllVersioned(db, disk)) =>
            /\ db'.skill_versions = db.skill_versions
            /\ events'[Len(events')] = <<"init", b, "none">> =>
                 LinkedIn(db', batch'[b].run_id) = VersionsIn(db, disk)]_vars

\* two runs are linked to the same version row, the only one there is
C29_Witness ==
  /\ batch["A"].run_id # NO_RUN /\ batch["B"].run_id # NO_RUN
  /\ Len(db.skill_versions) = 1
  /\ LinkedVersions(batch["A"].run_id) = {db.skill_versions[1].id}
  /\ LinkedVersions(batch["B"].run_id) = {db.skill_versions[1].id}

\* what a message reports of a usage counter (0 when it reports none)
ReportedBy(message, counter) ==
  IF message.type = "assistant" /\ message.has_body /\ message.has_usage
    THEN OrZero(message.usage[counter]) ELSE 0

\* the sum of a usage counter over the first n of the messages msgs
ReportedUpTo(msgs, n, counter) ==
  SumSeq([k \in 1..n |-> ReportedBy(msgs[k], counter)])

\* C30: on the activation path the stream is consumed only until activation is
\* found. No message is requested once a received message holds an activation;
\* a call that returns normally after an activation returns on the first
\* activating message and reports the usage summed up to and including it; a
\* call that returns normally without activation returns only when the stream
\* has ended, and reports the usage of every message.
C30_ConsumedUntilActivation ==
  [][\A b \in Batches : batch[b].kind = "activation" =>
       LET msgs == MessagesIn(batch'[b].inputs)
       IN /\ batch'[b].pc = "stream" => ActivatingIn(msgs) = {}
          /\ (batch[b].pc = "stream" /\ batch'[b].pc = "store"
                /\ batch'[b].results[batch[b].i].error = UNDEFINED) =>
               LET m == batch'[b].results[batch[b].i].metrics
               IN /\ ActivatingIn(msgs) # {} => Min(ActivatingIn(msgs)) = Len(msgs)
                  /\ ActivatingIn(msgs) = {} =>
                       Len(batch'[b].inputs) = Len(batch[b].inputs) + 1
                  /\ m.input_tokens = ReportedUpTo(msgs, Len(msgs), "input_tokens")
                  /\ m.output_tokens = ReportedUpTo(msgs, Len(msgs), "output_tokens")
                  /\ m.cache_read_tokens =
                       ReportedUpTo(msgs, Len(msgs), "cache_read_input_tokens")]_vars

\* ------------------------------------------------------------- C31 .. C39
\* the concatenation of a sequence of character strings
RECURSIVE Concat(_)
Concat(strings) ==
  IF strings = <<>> THEN <<>> ELSE Head(strings) \o Concat(Tail(strings))

\* the free text of a message: its text blocks, in block order
FreeText(message) ==
  IF message.type = "assistant" /\ message.has_body /\ message.content_is_array
    THEN Concat([j \in DOMAIN message.content |->
                   IF message.content[j].type = "text"
                     THEN message.content[j].text ELSE <<>>])
    ELSE <<>>

\* the free text of a sequence of messages, in message order
FreeTextOf(msgs) == Concat([k \in DOMAIN msgs |-> FreeText(msgs[k])])

C32_PreviewIsPrefix ==
  \A b \in Batches : batch[b].kind = "quality" =>
    \A k \in DOMAIN batch[b].results :
      LET r == batch[b].results[k]
          full == r.response_full_text
      IN IF r.error = UNDEFINED
           THEN /\ Len(r.response_preview) = IF Len(full) < 200 THEN Len(full) ELSE 200
                /\ \A j \in DOMAIN r.response_preview : r.response_preview[j] = full[j]
                /\ (batch[b].pc = "store" /\ k = batch[b].i) =>
                     full = FreeTextOf(MessagesIn(batch[b].inputs))
           ELSE /\ r.response_preview = T_empty
                /\ full = UNDEFINED_TEXT

\* a quality result whose full text is longer than its preview of 200 characters
C32_Witness ==
  \E b \in Batches : \E k \in DOMAIN batch[b].results :
    /\ batch[b].kind = "quality"
    /\ batch[b].results[k].error = UNDEFINED
    /\ Len(batch[b].results[k].response_full_text) > 200
    /\ Len(batch[b].results[k].response_preview) = 200

\* link_test_run_to_skill_versions of batch b threw
LinkFailed(b) == Happened(<<"init", b, "link_test_run_to_skill_versions">>)

\* C33: when link_test_run_to_skill_versions fails after create_test_run has
\* succeeded, the run identifier stays bound to the run record that was created.
\* Every case of the batch is then given to its store command under that run
\* (a row that is written carries the run's identifier), the final update is
\* attempted and, when it succeeds, writes the batch's aggregates to the run
\* record; the run has no skill-version links.
C33_LinkFailureKeepsRun ==
  \A b \in Batches : LinkFailed(b) =>
    /\ batch[b].run_id # NO_RUN
    /\ batch[b].run_id \in RunIds
    /\ RunRow(b).total_tests = Len(batch[b].test_cases)
    /\ LinkedVersions(batch[b].run_id) = {}
    /\ \A p \in DOMAIN events :
         (events[p][2] = b /\ events[p][1] \in {"store", "finalize"}) =>
           events[p][Len(events[p]) - (IF events[p][1] = "store" THEN 1 ELSE 0)]
             # "skipped"
    /\ \A k \in DOMAIN batch[b].results : \A id \in DOMAIN ResultTable(b) :
         RowWritten(b, k, id) => ResultTable(b)[id].run_id = batch[b].run_id
    /\ Finalized(b) =>
         /\ RunRow(b).passed_tests = batch[b].passed_count
         /\ RunRow(b).failed_tests = Len(batch[b].test_cases) - batch[b].passed_count
         /\ RunRow(b).total_input_tokens = batch[b].total_input_tokens
         /\ RunRow(b).total_cost_usd = batch[b].total_cost_usd
         /\ RunRow(b).total_latency_ms = batch[b].total_latency_ms

\* a batch of two cases whose linking failed has stored both results under its
\* run and finalized it with a passed test
C33_Witness ==
  \E b \in Batches :
    /\ LinkFailed(b) /\ Finalized(b)
    /\ Len(batch[b].test_cases) = 2
    /\ RunRow(b).passed_tests > 0
    /\ \E id1, id2 \in DOMAIN ResultTable(b) :
         Stored(b, 1, id1) /\ Stored(b, 2, id2)

\* C34: when the metric computation throws for a case whose message loop was
\* left normally, the case is reported through the error path. The activation
\* result has passed = false and activated_skill = null, also when the stream
\* held an activation of the expected skill; the quality result has passed =
\* false, no missing fact, no forbidden content and an empty preview, whatever
\* the response text was.
C34_MetricFailureIsErrorPath ==
  \A b \in Batches : PricingMiss(b) =>
    LET r == batch[b].results[batch[b].i]
    IN /\ ~r.passed
       /\ r.error = ErrorMsg(UnknownModelThrown)
       /\ ~r.metrics.has
       /\ batch[b].kind = "activation" => r.activated_skill = NULL
       /\ batch[b].kind = "quality" =>
            /\ r.missing_facts = <<>> /\ r.forbidden_content = <<>>
            /\ r.response_preview = T_empty

\* the metric computation threw for an activation case that should activate
\* and whose stream held an activation of the expected skill
C34_Witness ==
  \E b \in Batches :
    /\ PricingMiss(b) /\ batch[b].kind = "activation"
    /\ CurrentCase(b).should_activate
    /\ ActivatingIn(MessagesIn(batch[b].inputs)) # {}
    /\ FirstSkill(MessagesIn(batch[b].inputs)[Min(ActivatingIn(MessagesIn(batch[b].inputs)))])
         = CurrentCase(b).expected_skill
    /\ ~batch[b].results[batch[b].i].passed

\* the metric computation threw for a quality case with a response
C34_WitnessQuality ==
  \E b \in Batches :
    /\ PricingMiss(b) /\ batch[b].kind = "quality"
    /\ FreeTextOf(MessagesIn(batch[b].inputs)) # <<>>

\* the values of the rows of a child table that belong to result row `id`
ChildValues(table, id) ==
  LET rows == SelectSeq(table, LAMBDA row : row.result_id = id)
  IN [k \in DOMAIN rows |-> rows[k].value]

\* the log lines persisted for result row `id` of a batch of kind test_type
LoggedFor(id, test_type) ==
  LET rows == SelectSeq(db.test_logs,
                        LAMBDA row : /\ row.test_result_id = id
                                     /\ row.test_type = test_type)
  IN [k \in DOMAIN rows |-> rows[k].log_message]

IsPrefix(s, t) == Len(s) <= Len(t) /\ SubSeq(t, 1, Len(s)) = s

\* the lists of a result that its store command writes to child tables
FactsOf(b, r) == IF batch[b].kind = "quality" THEN r.missing_facts ELSE <<>>
ForbiddenOf(b, r) == IF batch[b].kind = "quality" THEN r.forbidden_content ELSE <<>>

\* C35 as stated: per-case persistence is all-or-nothing. Whenever the result
\* row of a case exists, all its missing_facts, forbidden_content and test_logs
\* rows exist as well, as many as the in-memory lists hold.
C35_Original ==
  \A b \in Batches : \A k \in DOMAIN batch[b].results :
    \A id \in DOMAIN ResultTable(b) :
      RowWritten(b, k, id) =>
        LET r == batch[b].results[k]
        IN /\ ChildValues(db.missing_facts, id) = FactsOf(b, r)
           /\ ChildValues(db.forbidden_content, id) = ForbiddenOf(b, r)
           /\ LoggedFor(id, batch[b].kind) = r.logs

\* C35 as amended: the store commands write statement by statement, without
\* rollback. The rows found for a written result row are a prefix of what the
\* command writes, in its order (missing facts, forbidden content, logs): each
\* table holds a prefix of the in-memory list, a later table holds rows only
\* when the earlier ones are complete, everything is there when the command
\* returned, and something is missing when it threw.
C35_Amended ==
  \A b \in Batches : \A k \in DOMAIN batch[b].results :
    \A id \in DOMAIN ResultTable(b) :
      RowWritten(b, k, id) =>
        LET r == batch[b].results[k]
            facts == ChildValues(db.missing_facts, id)
            forbidden == ChildValues(db.forbidden_content, id)
            logged == LoggedFor(id, batch[b].kind)
            complete == /\ facts = FactsOf(b, r)
                        /\ forbidden = ForbiddenOf(b, r)
                        /\ logged = r.logs
        IN /\ IsPrefix(facts, FactsOf(b, r))
           /\ IsPrefix(forbidden, ForbiddenOf(b, r))
           /\ IsPrefix(logged, r.logs)
           /\ forbidden # <<>> => facts = FactsOf(b, r)
           /\ logged # <<>> =>
                facts = FactsOf(b, r) /\ forbidden = ForbiddenOf(b, r)
           /\ Stored(b, k, id) <=> complete

\* a store command threw after it had written the result row, a missing fact
\* and some of the log lines of a quality result
C35_Witness ==
  \E b \in Batches : \E k \in DOMAIN batch[b].results :
    \E id \in DOMAIN ResultTable(b) :
      /\ batch[b].kind = "quality"
      /\ Happened(<<"store", b, k, "failed", id>>)
      /\ ChildValues(db.missing_facts, id) # <<>>
      /\ LoggedFor(id, "quality") # <<>>
      /\ LoggedFor(id, "quality") # batch[b].results[k].logs

UsageColumns ==
  {"input_tokens", "output_tokens", "cache_creation_tokens", "cache_read_tokens",
   "thinking_tokens", "latency_ms", "estimated_cost_usd"}

\* C36: for every persisted result row each usage column equals the value of
\* the in-memory result's metrics, zero included, and is NULL exactly when the
\* result has no metrics.
C36_UsageColumnsFaithful ==
  \A b \in Batches : \A k \in DOMAIN batch[b].results :
    \A id \in DOMAIN ResultTable(b) :
      RowWritten(b, k, id) =>
        LET r == batch[b].results[k]
            row == ResultTable(b)[id]
        IN \A column \in UsageColumns :
             IF r.metrics.has THEN row[column] = r.metrics[column]
                              ELSE row[column] = NULL_NUM

\* the batch whose create_test_run wrote the run record `row`
OwnerOf(row) == CHOOSE b \in Batches : batch[b].run_id = row.id

\* the usage aggregates of a run record
UsageAggregates(row) ==
  <<row.total_input_tokens, row.total_output_tokens,
    row.total_cache_read_tokens, row.total_latency_ms, row.total_cost_usd>>

\* C37: every run record is in one of two shapes. Not finalized: no update was
\* applied, passed_tests, failed_tests and every usage aggregate are 0 and
\* total_tests is the number of submitted cases. Finalized: one update was
\* applied, passed_tests + failed_tests = total_tests and the usage aggregates
\* are the sums over all the cases of the batch, never over a part of them. A
\* run whose final update failed stays in the first shape.
C37_RunRecordShapes ==
  \A k \in DOMAIN db.test_runs :
    LET row == db.test_runs[k]
    IN /\ \E b \in Batches : batch[b].run_id = row.id
       /\ LET bt == batch[OwnerOf(row)]
          IN /\ row.total_tests = Len(bt.test_cases)
             /\ IF row.updates = 0
                  THEN /\ ZeroAggregates(row)
                       /\ ~Finalized(OwnerOf(row))
                  ELSE /\ row.updates = 1
                       /\ Finalized(OwnerOf(row))
                       /\ row.passed_tests + row.failed_tests = row.total_tests
                       /\ Len(bt.results) = Len(bt.test_cases)
                       /\ row.passed_tests = SumOver(bt.results, PassedOf)
                       /\ UsageAggregates(row) =
                            <<SumOver(bt.results, InputOf),
                              SumOver(bt.results, OutputOf),
                              SumOver(bt.results, CacheReadOf),
                              SumOver(bt.results, LatencyOf),
                              SumOver(bt.results, CostOf)>>
             /\ FinalizeFailed(OwnerOf(row)) =>
                  row.updates = 0 /\ ZeroAggregates(row)

\* C37 witness: one run was finalized with the usage of its failed case while
\* the final update of another run, whose case had passed with usage, failed
\* and left its record at zero
C37_Witness ==
  \E b, o \in Batches :
    /\ Finalized(b)
    /\ RunRow(b).failed_tests = 1 /\ RunRow(b).total_input_tokens > 0
    /\ FinalizeFailed(o)
    /\ batch[o].passed_count > 0 /\ batch[o].total_input_tokens > 0
    /\ ZeroAggregates(RunRow(o))

\* the result rows persisted for the run of batch b
RowsOfRun(b) ==
  {p \in DOMAIN ResultTable(b) : ResultTable(b)[p].run_id = batch[b].run_id}

PassedRowsOfRun(b) == {p \in RowsOfRun(b) : ResultTable(b)[p].passed = 1}

\* the cases of batch b whose store command threw
FailedStores(b) == {k \in DOMAIN batch[b].results : StoreFailed(b, k)}

\* the cases of batch b whose store command threw before its result row was
\* inserted
RowlessStores(b) ==
  {k \in DOMAIN batch[b].results : Happened(<<"store", b, k, "failed", 0>>)}

\* C38 as stated: after finalization the number of result rows of the run is
\* total_tests minus the number of cases whose store call failed; passed_tests
\* is at least the number of rows with passed = 1 and equal to it when no store
\* call failed.
C38_Original ==
  \A b \in Batches : Finalized(b) =>
    /\ Cardinality(RowsOfRun(b)) =
         RunRow(b).total_tests - Cardinality(FailedStores(b))
    /\ RunRow(b).passed_tests >= Cardinality(PassedRowsOfRun(b))
    /\ FailedStores(b) = {} =>
         RunRow(b).passed_tests = Cardinality(PassedRowsOfRun(b))

\* C38 as amended: after finalization the number of result rows of the run is
\* total_tests minus the number of cases whose store call failed before its
\* result row was inserted - a store call that fails later, on a child or log
\* row, leaves its result row - so it lies between total_tests minus the failed
\* store calls and total_tests; passed_tests is at least the number of rows with
\* passed = 1, exceeds it by the passed cases that have no row, and equals it
\* when no store call failed.
C38_Amended ==
  \A b \in Batches : Finalized(b) =>
    /\ Cardinality(RowsOfRun(b)) =
         RunRow(b).total_tests - Cardinality(RowlessStores(b))
    /\ Cardinality(RowsOfRun(b)) >=
         RunRow(b).total_tests - Cardinality(FailedStores(b))
    /\ Cardinality(RowsOfRun(b)) <= RunRow(b).total_tests
    /\ RunRow(b).passed_tests >= Cardinality(PassedRowsOfRun(b))
    /\ RunRow(b).passed_tests - Cardinality(PassedRowsOfRun(b)) =
         Cardinality({k \in RowlessStores(b) : batch[b].results[k].passed})
    /\ FailedStores(b) = {} =>
         /\ Cardinality(RowsOfRun(b)) = RunRow(b).total_tests
         /\ RunRow(b).passed_tests = Cardinality(PassedRowsOfRun(b))

\* C38 witness: a finalized run of two cases in which the store call of a
\* passed case threw after its result row was inserted, so that both rows exist
C38_Witness ==
  \E b \in Batches : \E k \in DOMAIN batch[b].results :
    \E id \in DOMAIN ResultTable(b) :
      /\ Finalized(b)
      /\ RunRow(b).total_tests = 2
      /\ Happened(<<"store", b, k, "failed", id>>)
      /\ batch[b].results[k].passed
      /\ Cardinality(RowsOfRun(b)) = 2
      /\ Cardinality(FailedStores(b)) = 1

\* the first n results of a batch
Aggregated(bt) == SubSeq(bt.results, 1, bt.i - 1)

\* the rows of `table` attached to the run of batch b
AttachedTo(b, table) ==
  {p \in DOMAIN table : table[p].run_id = batch[b].run_id}

\* the table that holds the result rows of the other kind than batch b's
OtherTable(b) ==
  IF batch[b].kind = "activation" THEN db.quality_results
                                  ELSE db.activation_results

\* position p of the history is a step of batch b
StepOf(b, p) == events[p][2] = b

\* C39: two batches in flight do not interfere. The results of a batch are those
\* of its own cases, each what the case returns when run alone on its stream;
\* its pass count and token, latency and cost accumulators are the sums over
\* its own aggregated results; the run identifiers of two batches differ, every
\* result row written for a case of a batch is attached to that batch's run and
\* every row attached to a run was written for a case of its batch; and the
\* aggregates of a finalized run are the sums over what its cases return alone.
C39_NoInterference ==
  /\ \A b, o \in Batches :
       (b # o /\ batch[b].run_id # NO_RUN) => batch[b].run_id # batch[o].run_id
  /\ \A b \in Batches :
       LET bt == batch[b]
       IN /\ Len(bt.results) = Len(bt.alone)
          /\ \A k \in DOMAIN bt.results :
               /\ bt.results[k].test_id = bt.test_cases[k].id
               /\ bt.results[k] = bt.alone[k]
          /\ bt.passed_count = SumOver(Aggregated(bt), PassedOf)
          /\ Accumulators(bt) =
               <<SumOver(Aggregated(bt), InputOf), SumOver(Aggregated(bt), OutputOf),
                 SumOver(Aggregated(bt), CacheReadOf),
                 SumOver(Aggregated(bt), LatencyOf), SumOver(Aggregated(bt), CostOf)>>
          /\ \A k \in DOMAIN bt.results : \A id \in DOMAIN ResultTable(b) :
               RowWritten(b, k, id) =>
                 /\ ResultTable(b)[RowPosition(ResultTable(b), id)].run_id = bt.run_id
                 /\ ResultTable(b)[RowPosition(ResultTable(b), id)].test_id =
                      bt.test_cases[k].id
          /\ bt.run_id # NO_RUN =>
               /\ AttachedTo(b, OtherTable(b)) = {}
               /\ \A p \in AttachedTo(b, ResultTable(b)) :
                    \E k \in DOMAIN bt.results :
                      RowWritten(b, k, ResultTable(b)[p].id)
          /\ Finalized(b) =>
               /\ RunRow(b).passed_tests = SumOver(bt.alone, PassedOf)
               /\ RunRow(b).failed_tests =
                    Len(bt.test_cases) - SumOver(bt.alone, PassedOf)
               /\ UsageAggregates(RunRow(b)) =
                    <<SumOver(bt.alone, InputOf), SumOver(bt.alone, OutputOf),
                      SumOver(bt.alone, CacheReadOf),
                      SumOver(bt.alone, LatencyOf), SumOver(bt.alone, CostOf)>>
               /\ RunRow(b).avg_latency_ms =
                    AvgLatency(SumOver(bt.alone, LatencyOf), Len(bt.test_cases))

\* C39 witness: two batches of the same kind were in flight together - the
\* second stored its row between the agent call and the store of the first -
\* and both runs were finalized with the usage of their own case
C39_Witness ==
  \E b, o \in Batches : \E p, q, r \in DOMAIN events :
    /\ b # o /\ batch[b].kind = batch[o].kind
    /\ p < q /\ q < r
    /\ events[p] = <<"call", b, 1>>
    /\ StepOf(o, q) /\ events[q][1] = "store" /\ events[q][4] = "stored"
    /\ StepOf(b, r) /\ events[r][1] = "store" /\ events[r][4] = "stored"
    /\ Finalized(b) /\ Finalized(o)
    /\ RunRow(b).total_input_tokens > 0 /\ RunRow(o).total_input_tokens > 0
    /\ Cardinality(AttachedTo(b, ResultTable(b))) = 1
    /\ Cardinality(AttachedTo(o, ResultTable(o))) = 1

====
